---- MODULE Spec2Model ----
(***************************************************************************)
(* The client-side structured logging framework of personify               *)
(* (frontend/lib/logger): the core Logger, the context registry, the       *)
(* transports and the track/trackAsync wrappers, as a state machine.       *)
(*                                                                         *)
(* A JavaScript exception is modelled as a result record: an operator that *)
(* stands for a function that may throw returns [ok, ...] and its callers  *)
(* propagate or catch it exactly where the source does.  An optional field *)
(* of an object (entry.error, entry.requestId, ...) is a sequence of       *)
(* length 0 (absent) or 1 (present).                                       *)
(***************************************************************************)
EXTENDS Naturals, Sequences, FiniteSets

VARIABLES
  minLevel,           \* Logger.config.minLevel
  enablePerformance,  \* Logger.config.enablePerformance
  transports,         \* Logger.transports, in registration order
  globalContext,      \* Logger.globalContext
  regContext,         \* LoggerContext.context
  requestId,          \* LoggerContext.requestId: <<>> is null
  sessionId,          \* LoggerContext.sessionId
  last,               \* what the most recent logger call did (history)
  task,               \* the trackAsync call suspended at its await, if any
  maxBufferSize,      \* JsonTransport.maxBufferSize
  flushCallback,      \* whether JsonTransport.flushCallback is set
  timer,              \* whether the constructor installed the interval timer
  buffer,             \* JsonTransport.buffer
  calls,              \* the invocations of flushCallback so far (history)
  nextEntry,          \* the entries are numbered as they are logged
  jsonLast,           \* what the most recent JsonTransport call did (history)
  script,             \* the logging calls made so far, in order (history)
  writes,             \* how often ConsoleTransport.log has written (history)
  window,             \* whether typeof window is not undefined
  storageMode,        \* localStorage: working, full (setItem throws) or denied (any access throws)
  stored,             \* the item under storageKey: <<>> is absent, else <<text>>
  maxEntries,         \* LocalStorageTransport.maxEntries
  logged,             \* the entries given to LocalStorageTransport.log so far (history)
  lsLast,             \* what the most recent LocalStorageTransport call did (history)
  configEnableConsole, \* Logger.config.enableConsole, which child() passes on
  loggers,            \* the loggers made by new Logger and child(): which objects they refer to
  ctxHeap,            \* the context objects that a globalContext field refers to
  arrHeap,            \* the arrays that a transports field refers to
  isolated,           \* per logger, the global context its own history gives it (history)
  childLast,          \* what the most recent call on one of the loggers did (history)
  apiCalls,           \* the API calls dispatched so far: in flight or done (history)
  events,             \* the interceptor runs so far, with what each logged and did (history)
  regLast,            \* what the most recent call on the registry did (history)
  startTime,          \* Performance.startTime: <<>> is null
  marks,              \* Performance.marks, name to instant
  clock,              \* what performance.now() returns, in thousandths of a millisecond
  perfLast,           \* what the most recent Performance call did (history)
  dbMounted,          \* whether the component using useDebounce is mounted
  dbValue,            \* the value argument of the latest render
  dbDelay,            \* the delay argument of the latest render
  debouncedValue,     \* the state useDebounce returns
  dbTimers,           \* the pending setTimeout handlers, [value, due], oldest first
  now,                \* the time, in timer ticks
  dbHeld,             \* debouncedValue when value or delay last changed (history)
  dbChanged,          \* when value or delay last changed (history)
  dbLast,             \* what the most recent step of the hook logged (history)
  handled,            \* the most recent handleApiError call and what it did
  deliveries,         \* every invocation of a transport log so far, in the order they happened (history)
  hookPhase,          \* the component using useLogger: "initial", "mounted" or "unmounted"
  hookDeps,           \* the [componentName, context] the latest run of the effect saw; context is <<>> or <<object reference>>
  mountTimeRef,       \* mountTimeRef.current
  nextRef,            \* the next fresh object reference
  renders,            \* how often the component has re-rendered
  hookEntries,        \* the entries the effect and its cleanup dispatched so far (history)
  hostQueue,          \* the error and unhandledrejection events the host has still to dispatch
  raised,             \* how many such events there have been so far
  dispatched          \* per event given to a listener, what handling it did (history)

loggerVars == <<minLevel, enablePerformance, transports, globalContext>>
registryVars == <<regContext, requestId, sessionId>>
historyVars == <<last, task>>
jsonVars == <<maxBufferSize, flushCallback, timer, buffer, calls, nextEntry, jsonLast>>
e2eVars == <<script, writes>>
storeVars == <<window, storageMode, stored, maxEntries, logged, lsLast>>
childVars == <<configEnableConsole, loggers, ctxHeap, arrHeap, isolated, childLast>>
apiVars == <<apiCalls, events>>
regHistVars == <<regLast>>
perfVars == <<startTime, marks, clock, perfLast>>
debounceVars == <<dbMounted, dbValue, dbDelay, debouncedValue, dbTimers, now, dbHeld, dbChanged, dbLast>>
handleVars == <<handled>>
orderVars == <<deliveries>>
hookVars == <<hookPhase, hookDeps, mountTimeRef, nextRef, renders, hookEntries>>
hostVars == <<hostQueue, raised, dispatched>>
vars == <<minLevel, enablePerformance, transports, globalContext,
          regContext, requestId, sessionId, last, task,
          maxBufferSize, flushCallback, timer, buffer, calls, nextEntry, jsonLast,
          script, writes,
          window, storageMode, stored, maxEntries, logged, lsLast,
          configEnableConsole, loggers, ctxHeap, arrHeap, isolated, childLast,
          apiCalls, events,
          regLast,
          startTime, marks, clock, perfLast,
          dbMounted, dbValue, dbDelay, debouncedValue, dbTimers, now, dbHeld, dbChanged, dbLast,
          handled,
          deliveries,
          hookPhase, hookDeps, mountTimeRef, nextRef, renders, hookEntries,
          hostQueue, raised, dispatched>>

(***************************************************************************)
(* Bounds of the model.                                                    *)
(***************************************************************************)
MaxTransports == 3
MaxBufferSize == 3
MaxLogged == 4

(***************************************************************************)
(* Levels.                                                                 *)
(***************************************************************************)
LOG_LEVELS == [debug |-> 0, info |-> 1, warn |-> 2, error |-> 3]

Levels == {"debug", "info", "warn", "error"}

(***************************************************************************)
(* Contexts: LogContext is a mapping from keys to values; the object       *)
(* spread {...f, ...g} keeps f's keys and lets g win on a conflict.        *)
(***************************************************************************)
EmptyCtx == [k \in {} |-> ""]

Spread(f, g) ==
  [k \in (DOMAIN f) \cup (DOMAIN g) |-> IF k \in DOMAIN g THEN g[k] ELSE f[k]]

Ctx1(k, v) == [x \in {k} |-> v]

(***************************************************************************)
(* Values that can be passed as `error` or thrown by a wrapped function.   *)
(* kind is what `instanceof Error` / typeof tell; truthy is the value's    *)
(* truthiness; json is JSON.stringify's result, which throws for a cyclic  *)
(* object (jsonThrows); str is String(value).                              *)
(***************************************************************************)
ErrValue(kind, truthy, name, message, json, jsonThrows, str) ==
  [kind |-> kind, truthy |-> truthy, name |-> name, message |-> message,
   json |-> json, jsonThrows |-> jsonThrows, str |-> str]

Undefined == ErrValue("undefined", FALSE, "", "", "", FALSE, "undefined")
NativeError == ErrValue("Error", TRUE, "TypeError", "x", "{}", FALSE, "TypeError: x")
PlainObject == ErrValue("object", TRUE, "", "", "{\"foo\":1}", FALSE, "[object Object]")
CyclicObject == ErrValue("object", TRUE, "", "", "", TRUE, "[object Object]")
Boom == ErrValue("primitive", TRUE, "", "", "\"boom\"", FALSE, "boom")
Zero == ErrValue("primitive", FALSE, "", "", "0", FALSE, "0")
\* the TypeError JSON.stringify raises on a cyclic structure
JsonTypeError ==
  ErrValue("Error", TRUE, "TypeError", "Converting circular structure to JSON",
           "{}", FALSE, "TypeError: Converting circular structure to JSON")

ErrValues == {Undefined, NativeError, PlainObject, CyclicObject, Boom, Zero}

(***************************************************************************)
(* Transports: an object {name, log, shouldLog?}.  filter says whether the *)
(* object has a shouldLog and what it does ("none": no shouldLog, "level": *)
(* compares against min, "throws"); sink says what log does ("ok",         *)
(* "throws" synchronously, "rejects": returns a promise that rejects).     *)
(***************************************************************************)
Transport(name, filter, min, sink) ==
  [name |-> name, filter |-> filter, min |-> min, sink |-> sink]

ConsoleTransport(min) == Transport("console", "level", min, "ok")

CustomTransports ==
  { Transport("plain", "none", "debug", "ok"),
    Transport("thrower", "none", "debug", "throws"),
    Transport("rejecter", "none", "debug", "rejects"),
    Transport("badFilter", "throws", "debug", "ok") }

TransportPool == {ConsoleTransport(m) : m \in Levels} \cup CustomTransports

TransportShouldLog(t, level) == LOG_LEVELS[level] >= LOG_LEVELS[t.min]

(***************************************************************************)
(* Context registry.                                                       *)
(***************************************************************************)
\* a call on the registry and the fields as they were before it; key is
\* <<>> when the call has no key argument
RegCall(op, key, context, rid, sid) ==
  [op |-> op, key |-> key, context |-> context, requestId |-> rid, sessionId |-> sid]

NoRegCall == RegCall("none", <<>>, EmptyCtx, <<>>, <<>>)

\* LoggerContext.getSessionId
getSessionId == IF sessionId = <<>> THEN "" ELSE sessionId[1]

\* getAllContext with the ambient mapping spread last
getAllContextAmbientLast ==
  Spread(Spread(IF requestId # <<>> THEN Ctx1("requestId", requestId[1]) ELSE EmptyCtx,
                IF sessionId # <<>> THEN Ctx1("sessionId", sessionId[1]) ELSE EmptyCtx),
         regContext)

getAllContext ==
  Spread(Spread(regContext,
                IF requestId # <<>> THEN Ctx1("requestId", requestId[1]) ELSE EmptyCtx),
         IF sessionId # <<>> THEN Ctx1("sessionId", sessionId[1]) ELSE EmptyCtx)

(***************************************************************************)
(* Core logger.                                                            *)
(***************************************************************************)
\* a logger whose own level filter lets every call through
shouldLogAll(level) == TRUE

shouldLog(level) == LOG_LEVELS[level] >= LOG_LEVELS[minLevel]

\* [ok, details, thrown]: JSON.stringify is the only step that can throw.
\* Of the descriptor, name and message are kept; stack and cause are copied
\* from a native error unchanged and read by nothing here.
formatError(error) ==
  IF error.kind = "Error"
    THEN [ok |-> TRUE, thrown |-> Undefined,
          details |-> [name |-> error.name, message |-> error.message]]
    ELSE IF error.kind = "object"
      THEN IF error.jsonThrows
             THEN [ok |-> FALSE, thrown |-> JsonTypeError,
                   details |-> [name |-> "", message |-> ""]]
             ELSE [ok |-> TRUE, thrown |-> Undefined,
                   details |-> [name |-> "Error", message |-> error.json]]
      ELSE [ok |-> TRUE, thrown |-> Undefined,
            details |-> [name |-> "Error", message |-> error.str]]

Opt(ctx, key) == IF key \in DOMAIN ctx THEN <<ctx[key]>> ELSE <<>>

\* createLogEntry with the spreads in the opposite order: the global context wins
createLogEntryGlobalWins(level, message, context, error, performance) ==
  LET contextData == getAllContext
      mergedContext == Spread(Spread(context, contextData), globalContext)
      fe == formatError(error)
  IN  IF error.truthy /\ ~fe.ok
        THEN [ok |-> FALSE, thrown |-> fe.thrown, entry |-> <<>>]
        ELSE [ok |-> TRUE, thrown |-> Undefined,
              entry |-> <<[timestamp |-> "now",
                           level |-> level,
                           message |-> message,
                           context |-> IF DOMAIN mergedContext # {}
                                         THEN <<mergedContext>> ELSE <<>>,
                           error |-> IF error.truthy THEN <<fe.details>> ELSE <<>>,
                           performance |-> performance,
                           requestId |-> Opt(contextData, "requestId"),
                           userId |-> Opt(contextData, "userId"),
                           sessionId |-> Opt(contextData, "sessionId")]>>]

\* createLogEntry of a logger whose globalContext is gc: [ok, entry, thrown];
\* the timestamp is the clock's reading, "now"
createLogEntryOf(gc, level, message, context, error, performance) ==
  LET contextData == getAllContext
      mergedContext == Spread(Spread(gc, contextData), context)
      fe == formatError(error)
  IN  IF error.truthy /\ ~fe.ok
        THEN [ok |-> FALSE, thrown |-> fe.thrown, entry |-> <<>>]
        ELSE [ok |-> TRUE, thrown |-> Undefined,
              entry |-> <<[timestamp |-> "now",
                           level |-> level,
                           message |-> message,
                           context |-> IF DOMAIN mergedContext # {}
                                         THEN <<mergedContext>> ELSE <<>>,
                           error |-> IF error.truthy THEN <<fe.details>> ELSE <<>>,
                           performance |-> performance,
                           requestId |-> Opt(contextData, "requestId"),
                           userId |-> Opt(contextData, "userId"),
                           sessionId |-> Opt(contextData, "sessionId")]>>]

createLogEntry(level, message, context, error, performance) ==
  createLogEntryOf(globalContext, level, message, context, error, performance)

(***************************************************************************)
(* The effects of a call: the entries handed to the fan-out, the           *)
(* (transport position, entry) pairs for which transport.log was invoked,  *)
(* the transport names reported by console.error, and the transports whose *)
(* log returned a promise that rejected with nothing attached to it.       *)
(***************************************************************************)
NoEff == [entries |-> <<>>, recv |-> <<>>, fallback |-> <<>>, unhandled |-> <<>>]

(***************************************************************************)
(* History of the most recent call.                                        *)
(***************************************************************************)
\* what a wrapped function does: returns value or throws / rejects with it
Fn(kind, value) == [kind |-> kind, value |-> value]

NoFn == Fn("none", Undefined)

Call(op, level, site, err, fn, r) ==
  [op |-> op, level |-> level, site |-> site, err |-> err, fn |-> fn,
   eff |-> r.eff, threw |-> r.threw, thrown |-> r.thrown, result |-> r.result]

Returned(eff, value) ==
  [eff |-> eff, threw |-> FALSE, thrown |-> Undefined, result |-> value]

Raised(eff, value) ==
  [eff |-> eff, threw |-> TRUE, thrown |-> value, result |-> Undefined]

NoCall == Call("none", "debug", EmptyCtx, Undefined, NoFn, Returned(NoEff, Undefined))

\* one iteration of the loop of Logger.log, its try/catch included
Deliver(t, i, entry, eff) ==
  IF t.filter = "throws"
    THEN [eff EXCEPT !.fallback = Append(@, t.name)]
    ELSE IF t.filter = "level" /\ ~TransportShouldLog(t, entry.level)
      THEN eff
      ELSE LET got == [eff EXCEPT !.recv = Append(@, [i |-> i, e |-> entry])]
           IN  IF t.sink = "throws"
                 THEN [got EXCEPT !.fallback = Append(@, t.name)]
                 ELSE IF t.sink = "rejects"
                   THEN [got EXCEPT !.unhandled = Append(@, t.name)]
                   ELSE got

RECURSIVE FanOutBreak(_, _, _, _)
FanOutBreak(ts, i, entry, eff) ==
  IF i > Len(ts) \/ eff.fallback # <<>>
    THEN eff
    ELSE FanOutBreak(ts, i + 1, entry, Deliver(ts[i], i, entry, eff))

\* the loop of Logger.log walking the transports from the last to the first
RECURSIVE FanOutReversed(_, _, _, _)
FanOutReversed(ts, i, entry, eff) ==
  IF i > Len(ts)
    THEN eff
    ELSE FanOutReversed(ts, i + 1, entry,
                        Deliver(ts[Len(ts) + 1 - i], Len(ts) + 1 - i, entry, eff))

RECURSIVE FanOut(_, _, _, _)
FanOut(ts, i, entry, eff) ==
  IF i > Len(ts)
    THEN eff
    ELSE FanOut(ts, i + 1, entry, Deliver(ts[i], i, entry, eff))

\* Logger.log: the effects, and whether it returned or raised
Log(level, message, context, error, performance, eff) ==
  IF ~shouldLog(level)
    THEN Returned(eff, Undefined)
    ELSE LET c == createLogEntry(level, message, context, error, performance)
         IN  IF ~c.ok
               THEN Raised(eff, c.thrown)
               ELSE Returned(FanOut(transports, 1, c.entry[1],
                                    [eff EXCEPT !.entries = Append(@, c.entry[1])]),
                             Undefined)

\* Logger.log of a logger whose globalContext is gc and whose transports
\* array is ts (the level filter is the configuration all of them share)
LogOf(gc, ts, level, message, context, error, performance, eff) ==
  IF ~shouldLog(level)
    THEN Returned(eff, Undefined)
    ELSE LET c == createLogEntryOf(gc, level, message, context, error, performance)
         IN  IF ~c.ok
               THEN Raised(eff, c.thrown)
               ELSE Returned(FanOut(ts, 1, c.entry[1],
                                    [eff EXCEPT !.entries = Append(@, c.entry[1])]),
                             Undefined)

Idle == [state |-> "idle", site |-> EmptyCtx, eff |-> NoEff]

(***************************************************************************)
(* JsonTransport.  An invocation of flushCallback is recorded with the     *)
(* batch it was given, the buffer as it was at that moment (seen), what    *)
(* the callback did (status: "pending" while its promise is unsettled,     *)
(* "resolved", "rejected", or "threw" synchronously), how often            *)
(* console.error reported it, and the state of the promise flush()         *)
(* returned.                                                               *)
(***************************************************************************)
DefaultMaxBufferSize == 100

JsonCall(op, before, entry, ncalls) ==
  [op |-> op, before |-> before, entry |-> entry, ncalls |-> ncalls]

NoJsonCall == JsonCall("none", <<>>, 0, 0)

\* a catch block that puts the failed batch back in front of the buffer
flushCatchRequeue(buf, batch) == batch \o buf

\* the catch block of flush: console.error, and the buffer is left as it is
flushCatch(buf, batch) == buf

\* flush() that invokes the callback before it empties the buffer
flushCallbackFirst(buf, cs, outcome) ==
  IF Len(buf) = 0
    THEN [buffer |-> buf, calls |-> cs]
    ELSE IF ~flushCallback
      THEN [buffer |-> <<>>, calls |-> cs]
      ELSE IF outcome = "threw"
        THEN [buffer |-> flushCatch(<<>>, buf),
              calls |-> Append(cs, [batch |-> buf, seen |-> buf, status |-> "threw",
                                    reported |-> 1, flush |-> "fulfilled"])]
        ELSE [buffer |-> <<>>,
              calls |-> Append(cs, [batch |-> buf, seen |-> buf, status |-> "pending",
                                    reported |-> 0, flush |-> "pending"])]

\* flush() that hands the entries over and leaves them in the buffer
flushKeep(buf, cs, outcome) ==
  IF Len(buf) = 0 \/ ~flushCallback
    THEN [buffer |-> buf, calls |-> cs]
    ELSE [buffer |-> buf,
          calls |-> Append(cs, [batch |-> buf, seen |-> buf,
                                status |-> IF outcome = "threw" THEN "threw" ELSE "pending",
                                reported |-> IF outcome = "threw" THEN 1 ELSE 0,
                                flush |-> IF outcome = "threw" THEN "fulfilled" ELSE "pending"])]

\* flush() up to its await: [buffer, calls] afterwards.  outcome is what the
\* callback does when invoked: "threw", or "pending" (it returned a promise)
flush(buf, cs, outcome) ==
  IF Len(buf) = 0
    THEN [buffer |-> buf, calls |-> cs]
    ELSE IF ~flushCallback
      THEN [buffer |-> <<>>, calls |-> cs]
      ELSE IF outcome = "threw"
        THEN [buffer |-> flushCatch(<<>>, buf),
              calls |-> Append(cs, [batch |-> buf, seen |-> <<>>, status |-> "threw",
                                    reported |-> 1, flush |-> "fulfilled"])]
        ELSE [buffer |-> <<>>,
              calls |-> Append(cs, [batch |-> buf, seen |-> <<>>, status |-> "pending",
                                    reported |-> 0, flush |-> "pending"])]

\* log() that flushes only once the buffer has grown past maxBufferSize
jsonLogGreater(buf, cs, entry, outcome) ==
  IF Len(Append(buf, entry)) > maxBufferSize
    THEN flush(Append(buf, entry), cs, outcome)
    ELSE [buffer |-> Append(buf, entry), calls |-> cs]

\* JsonTransport.log
jsonLog(buf, cs, entry, outcome) ==
  IF Len(Append(buf, entry)) >= maxBufferSize
    THEN flush(Append(buf, entry), cs, outcome)
    ELSE [buffer |-> Append(buf, entry), calls |-> cs]

CallbackOutcomes == {"pending", "threw"}

JsonLog(outcome) ==
  /\ nextEntry <= MaxLogged
  /\ LET r == jsonLog(buffer, calls, nextEntry, outcome)
     IN  /\ buffer' = r.buffer
         /\ calls' = r.calls
  /\ jsonLast' = JsonCall("log", buffer, nextEntry, Len(calls))
  /\ nextEntry' = nextEntry + 1
  /\ UNCHANGED <<hostVars, hookVars, orderVars, handleVars, debounceVars, perfVars, regHistVars, apiVars, childVars, storeVars, e2eVars, loggerVars, registryVars, historyVars,
                 maxBufferSize, flushCallback, timer>>

\* an explicit flush() call
JsonFlush(outcome) ==
  /\ LET r == flush(buffer, calls, outcome)
     IN  /\ buffer' = r.buffer
         /\ calls' = r.calls
  /\ jsonLast' = JsonCall("flush", buffer, 0, Len(calls))
  /\ UNCHANGED <<hostVars, hookVars, orderVars, handleVars, debounceVars, perfVars, regHistVars, apiVars, childVars, storeVars, e2eVars, loggerVars, registryVars, historyVars,
                 maxBufferSize, flushCallback, timer, nextEntry>>

\* an interval timer whose callback does not flush
JsonTickIdle(outcome) ==
  /\ timer
  /\ jsonLast' = JsonCall("tick", buffer, 0, Len(calls))
  /\ UNCHANGED <<hostVars, hookVars, orderVars, handleVars, debounceVars, perfVars, regHistVars, apiVars, childVars, storeVars, e2eVars, loggerVars, registryVars, historyVars,
                 maxBufferSize, flushCallback, timer, nextEntry, buffer, calls>>

\* the interval timer fires: () => void this.flush()
JsonTick(outcome) ==
  /\ timer
  /\ LET r == flush(buffer, calls, outcome)
     IN  /\ buffer' = r.buffer
         /\ calls' = r.calls
  /\ jsonLast' = JsonCall("tick", buffer, 0, Len(calls))
  /\ UNCHANGED <<hostVars, hookVars, orderVars, handleVars, debounceVars, perfVars, regHistVars, apiVars, childVars, storeVars, e2eVars, loggerVars, registryVars, historyVars,
                 maxBufferSize, flushCallback, timer, nextEntry>>

\* the promise of invocation i resolves: flush resumes after its await
CallbackResolves(i) ==
  /\ i \in DOMAIN calls
  /\ calls[i].status = "pending"
  /\ calls' = [calls EXCEPT ![i].status = "resolved", ![i].flush = "fulfilled"]
  /\ jsonLast' = JsonCall("settle", buffer, 0, Len(calls))
  /\ UNCHANGED <<hostVars, hookVars, orderVars, handleVars, debounceVars, perfVars, regHistVars, apiVars, childVars, storeVars, e2eVars, loggerVars, registryVars, historyVars,
                 maxBufferSize, flushCallback, timer, buffer, nextEntry>>

\* the promise of invocation i rejects: flush resumes in its catch block
CallbackRejects(i) ==
  /\ i \in DOMAIN calls
  /\ calls[i].status = "pending"
  /\ buffer' = flushCatch(buffer, calls[i].batch)
  /\ calls' = [calls EXCEPT ![i].status = "rejected", ![i].reported = @ + 1,
                            ![i].flush = "fulfilled"]
  /\ jsonLast' = JsonCall("settle", buffer, 0, Len(calls))
  /\ UNCHANGED <<hostVars, hookVars, orderVars, handleVars, debounceVars, perfVars, regHistVars, apiVars, childVars, storeVars, e2eVars, loggerVars, registryVars, historyVars,
                 maxBufferSize, flushCallback, timer, nextEntry>>

(***************************************************************************)
(* Logger construction.                                                    *)
(***************************************************************************)
Constructor(enableConsole, configTransports, level) ==
  IF enableConsole
    THEN <<ConsoleTransport(level)>> \o configTransports
    ELSE configTransports

(***************************************************************************)
(* Actions.                                                                *)
(***************************************************************************)
\* debug / info / warn (message, context) and error(message, error, context)
LogCall(level, site, err) ==
  /\ last' = Call("log", level, site, err, NoFn,
                  Log(level, "m", site, err, <<>>, NoEff))
  /\ UNCHANGED <<hostVars, hookVars, orderVars, handleVars, debounceVars, perfVars, regHistVars, apiVars, childVars, storeVars, e2eVars, jsonVars, loggerVars, registryVars, task>>

AddTransport(t) ==
  /\ Len(transports) < MaxTransports
  /\ transports' = Append(transports, t)
  /\ last' = NoCall
  /\ UNCHANGED <<hostVars, hookVars, orderVars, handleVars, debounceVars, perfVars, regHistVars, apiVars, childVars, storeVars, e2eVars, jsonVars, minLevel, enablePerformance, globalContext, registryVars, task>>

Filter(ts, name) ==
  LET keep == {i \in 1..Len(ts) : ts[i].name # name}
      F[i \in 0..Len(ts)] ==
        IF i = 0 THEN <<>>
        ELSE IF i \in keep THEN Append(F[i - 1], ts[i]) ELSE F[i - 1]
  IN  F[Len(ts)]

RemoveTransport(name) ==
  /\ transports' = Filter(transports, name)
  /\ transports' # transports
  /\ last' = NoCall
  /\ UNCHANGED <<hostVars, hookVars, orderVars, handleVars, debounceVars, perfVars, regHistVars, apiVars, childVars, storeVars, e2eVars, jsonVars, minLevel, enablePerformance, globalContext, registryVars, task>>

(***************************************************************************)
(* perf, track and trackAsync.  metrics is what Performance.end() returns. *)
(***************************************************************************)
Metrics(duration) ==
  [duration |-> duration, memory |-> "undefined", timestamp |-> "now"]

MetricsValues == {Metrics("0"), Metrics("12.34")}

\* a perf that does not look at the enablePerformance flag
perfUngated(message, metrics, context, eff) ==
  Log("debug", message, context, Undefined, <<metrics>>, eff)

perf(message, metrics, context, eff) ==
  IF ~enablePerformance
    THEN Returned(eff, Undefined)
    ELSE Log("debug", message, context, Undefined, <<metrics>>, eff)

\* Logger.track from its try on; started is the effect of the Starting call
track(fn, context, metrics, started) ==
  IF fn.kind = "return"
    THEN Returned(perf("Completed: op", metrics, context, started).eff, fn.value)
    ELSE LET failed == Log("error", "Failed: op", Spread(context, metrics),
                           fn.value, <<>>, started)
         IN  IF failed.threw
               THEN Raised(failed.eff, failed.thrown)
               ELSE Raised(failed.eff, fn.value)

\* trackAsync logging its completion with debug() instead of perf()
trackAsyncPlainDebug(fn, context, metrics, started) ==
  IF fn.kind = "return"
    THEN Returned(Log("debug", "Completed: op", context, Undefined, <<>>, started).eff,
                  fn.value)
    ELSE LET failed == Log("error", "Failed: op", Spread(context, metrics),
                           fn.value, <<>>, started)
         IN  IF failed.threw
               THEN Raised(failed.eff, failed.thrown)
               ELSE Raised(failed.eff, fn.value)

\* Logger.trackAsync from the resumption of its await on
trackAsync(fn, context, metrics, started) ==
  IF fn.kind = "return"
    THEN Returned(perf("Completed: op", metrics, context, started).eff, fn.value)
    ELSE LET failed == Log("error", "Failed: op", Spread(context, metrics),
                           fn.value, <<>>, started)
         IN  IF failed.threw
               THEN Raised(failed.eff, failed.thrown)
               ELSE Raised(failed.eff, fn.value)

Perf(site, metrics) ==
  /\ last' = Call("perf", "debug", site, Undefined, NoFn,
                  perf("m", metrics, site, NoEff))
  /\ UNCHANGED <<hostVars, hookVars, orderVars, handleVars, debounceVars, perfVars, regHistVars, apiVars, childVars, storeVars, e2eVars, jsonVars, loggerVars, registryVars, task>>

\* track(operation, fn, context): fn runs to its end inside the call
Track(fn, site, metrics) ==
  /\ last' = Call("track", "debug", site, Undefined, fn,
                  track(fn, site, metrics,
                        Log("debug", "Starting: op", site, Undefined, <<>>, NoEff).eff))
  /\ UNCHANGED <<hostVars, hookVars, orderVars, handleVars, debounceVars, perfVars, regHistVars, apiVars, childVars, storeVars, e2eVars, jsonVars, loggerVars, registryVars, task>>

\* trackAsync up to its await: fn() has returned a pending promise
TrackAsyncStart(site) ==
  /\ task.state = "idle"
  /\ task' = [state |-> "pending", site |-> site,
              eff |-> Log("debug", "Starting: op", site, Undefined, <<>>, NoEff).eff]
  /\ UNCHANGED <<hostVars, hookVars, orderVars, handleVars, debounceVars, perfVars, regHistVars, apiVars, childVars, storeVars, e2eVars, jsonVars, loggerVars, registryVars, last>>

\* the promise settles and trackAsync resumes
TrackAsyncSettle(fn, metrics) ==
  /\ task.state = "pending"
  /\ last' = Call("trackAsync", "debug", task.site, Undefined, fn,
                  trackAsync(fn, task.site, metrics, task.eff))
  /\ task' = Idle
  /\ UNCHANGED <<hostVars, hookVars, orderVars, handleVars, debounceVars, perfVars, regHistVars, apiVars, childVars, storeVars, e2eVars, jsonVars, loggerVars, registryVars>>

\* fn() throws before it returns a promise: the catch runs within the call
TrackAsyncThrows(fn, site, metrics) ==
  /\ task.state = "idle"
  /\ fn.kind = "throw"
  /\ last' = Call("trackAsync", "debug", site, Undefined, fn,
                  trackAsync(fn, site, metrics,
                             Log("debug", "Starting: op", site, Undefined, <<>>, NoEff).eff))
  /\ UNCHANGED <<hostVars, hookVars, orderVars, handleVars, debounceVars, perfVars, regHistVars, apiVars, childVars, storeVars, e2eVars, jsonVars, loggerVars, registryVars, task>>

(***************************************************************************)
(* Context registry operations.                                            *)
(***************************************************************************)
SetContext(key, value) ==
  /\ regContext' = Spread(regContext, Ctx1(key, value))
  /\ last' = NoCall
  /\ regLast' = RegCall("setContext", <<key>>, regContext, requestId, sessionId)
  /\ UNCHANGED <<hostVars, hookVars, orderVars, handleVars, debounceVars, perfVars, apiVars, childVars, storeVars, e2eVars, jsonVars, loggerVars, requestId, sessionId, task>>

Without(ctx, key) == [k \in (DOMAIN ctx) \ {key} |-> ctx[k]]

\* key is <<>> when clearContext is called without an argument
ClearContext(key) ==
  /\ regContext' = IF key # <<>> /\ key[1] # ""
                     THEN Without(regContext, key[1])
                     ELSE EmptyCtx
  /\ regContext' # regContext
  /\ last' = NoCall
  /\ regLast' = RegCall("clearContext", key, regContext, requestId, sessionId)
  /\ UNCHANGED <<hostVars, hookVars, orderVars, handleVars, debounceVars, perfVars, apiVars, childVars, storeVars, e2eVars, jsonVars, loggerVars, requestId, sessionId, task>>

GenerateRequestId(id) ==
  /\ requestId' = <<id>>
  /\ requestId' # requestId
  /\ last' = NoCall
  /\ regLast' = RegCall("generateRequestId", <<>>, regContext, requestId, sessionId)
  /\ UNCHANGED <<hostVars, hookVars, orderVars, handleVars, debounceVars, perfVars, apiVars, childVars, storeVars, e2eVars, jsonVars, loggerVars, regContext, sessionId, task>>

ClearRequestId ==
  /\ requestId # <<>>
  /\ requestId' = <<>>
  /\ last' = NoCall
  /\ regLast' = RegCall("clearRequestId", <<>>, regContext, requestId, sessionId)
  /\ UNCHANGED <<hostVars, hookVars, orderVars, handleVars, debounceVars, perfVars, apiVars, childVars, storeVars, e2eVars, jsonVars, loggerVars, regContext, sessionId, task>>

(***************************************************************************)
(* LocalStorageTransport.  The item under storageKey is a string; what     *)
(* matters of it is whether JSON.parse accepts it and whether the value is *)
(* an array.  An entry is identified by id; body tells what JSON.stringify *)
(* does with it: "json" is kept as it is, "lossy" holds values that are    *)
(* left out or replaced (undefined, functions, NaN), "cyclic" makes        *)
(* JSON.stringify throw (a cycle or a BigInt somewhere in its context).    *)
(***************************************************************************)
DefaultMaxEntries == 1000

StorageModes == {"working", "full", "denied"}

StoreEntry(id, body) == [id |-> id, body |-> body]

Bodies == {"json", "lossy", "cyclic"}

\* a text (kind "array", "object" for any other JSON value, "garbage" for a
\* string JSON.parse rejects) and the value a text parses to
JsonText(kind, items) == [kind |-> kind, items |-> items]

\* JSON.stringify of an array of entries
stringify(list) ==
  IF \E k \in DOMAIN list : list[k].body = "cyclic"
    THEN [ok |-> FALSE, text |-> JsonText("garbage", <<>>)]
    ELSE [ok |-> TRUE,
          text |-> JsonText("array", [k \in DOMAIN list |-> StoreEntry(list[k].id, "json")])]

\* JSON.parse
parse(text) ==
  IF text.kind = "garbage"
    THEN [ok |-> FALSE, value |-> JsonText("array", <<>>)]
    ELSE [ok |-> TRUE, value |-> text]

StoreCall(op, entry, before, threw, warned, result) ==
  [op |-> op, entry |-> entry, before |-> before, threw |-> threw,
   warned |-> warned, result |-> result]

EmptyList == JsonText("array", <<>>)

NoStoreCall == StoreCall("none", StoreEntry(0, "json"), <<>>, FALSE, FALSE, EmptyList)

\* LocalStorageTransport.getLogs: the value it returns
getLogs ==
  IF ~window
    THEN EmptyList
    ELSE IF storageMode = "denied"
      THEN EmptyList
      ELSE IF stored = <<>>
        THEN EmptyList
        ELSE IF parse(stored[1]).ok THEN parse(stored[1]).value ELSE EmptyList

Take(s, n) == SubSeq(s, 1, IF n < Len(s) THEN n ELSE Len(s))

\* a log() that puts the new entry behind the existing ones
lsLogAppend(entry) ==
  IF ~window
    THEN [stored |-> stored, warned |-> FALSE]
    ELSE LET existing == getLogs
         IN  IF existing.kind # "array"
               THEN [stored |-> stored, warned |-> TRUE]
               ELSE LET updated == Take(Append(existing.items, entry), maxEntries)
                        s == stringify(updated)
                    IN  IF ~s.ok \/ storageMode # "working"
                          THEN [stored |-> stored, warned |-> TRUE]
                          ELSE [stored |-> <<s.text>>, warned |-> FALSE]

\* LocalStorageTransport.log: [stored, warned] afterwards.  Spreading a value
\* that is not iterable, JSON.stringify and setItem can throw inside the try;
\* the catch block warns on the console.
lsLog(entry) ==
  IF ~window
    THEN [stored |-> stored, warned |-> FALSE]
    ELSE LET existing == getLogs
         IN  IF existing.kind # "array"
               THEN [stored |-> stored, warned |-> TRUE]
               ELSE LET updated == Take(<<entry>> \o existing.items, maxEntries)
                        s == stringify(updated)
                    IN  IF ~s.ok \/ storageMode # "working"
                          THEN [stored |-> stored, warned |-> TRUE]
                          ELSE [stored |-> <<s.text>>, warned |-> FALSE]

\* LocalStorageTransport.clear: removeItem is called outside any try
lsClear ==
  IF ~window
    THEN [stored |-> stored, threw |-> FALSE]
    ELSE IF storageMode = "denied"
      THEN [stored |-> stored, threw |-> TRUE]
      ELSE [stored |-> <<>>, threw |-> FALSE]

(***************************************************************************)
(* Several loggers.  child() builds a new Logger from the parent's         *)
(* configuration, a fresh context object and the parent's transports       *)
(* array itself, so the fields are references: ctx into ctxHeap and arr    *)
(* into arrHeap.  given is the context handed to child().                  *)
(***************************************************************************)
LoggerRef(ctx, arr, parent, given) ==
  [ctx |-> ctx, arr |-> arr, parent |-> parent, given |-> given]

ChildCall(op, logger, site, r) ==
  [op |-> op, logger |-> logger, site |-> site, eff |-> r.eff, threw |-> r.threw]

NoChildCall == ChildCall("none", 0, EmptyCtx, Returned(NoEff, Undefined))

\* a child() that adds the context to the parent's own object and shares it
childContextShared(heap, parentRef, context) ==
  [heap |-> [heap EXCEPT ![parentRef] = Spread(@, context)], ref |-> parentRef]

\* child: context: { ...this.globalContext, ...context } is a new object
childContext(heap, parentRef, context) ==
  [heap |-> Append(heap, Spread(heap[parentRef], context)), ref |-> Len(heap) + 1]

\* the constructor run by child on the array it was given: unshift in place
constructorUnshift(arrays, ref) ==
  IF configEnableConsole
    THEN [arrays EXCEPT ![ref] = <<ConsoleTransport(minLevel)>> \o @]
    ELSE arrays

(***************************************************************************)
(* Performance tracker.  Instants and durations are in thousandths of a    *)
(* millisecond, so that rounding to two decimals is rounding to tens.      *)
(***************************************************************************)
NoMarks == [k \in {} |-> 0]

\* Math.round(d * 100) / 100: to the nearest hundredth, halves upwards
Round2(d) == ((d + 5) \div 10) * 10

PerfCall(op, startMark, endMark, threw, result, start, ms) ==
  [op |-> op, startMark |-> startMark, endMark |-> endMark, threw |-> threw,
   result |-> result, startTime |-> start, marks |-> ms]

NoPerfCall == PerfCall("none", <<>>, <<>>, FALSE, 0, <<>>, NoMarks)

\* this.startTime ? ... : ... tests a number or null for truthiness
Truthy(t) == t # <<>> /\ t[1] # 0

\* Performance.end: the duration of the metrics it returns
endDuration == Round2(IF Truthy(startTime) THEN clock - startTime[1] ELSE 0)

\* this.marks.get(name): <<>> is undefined
marksGet(name) == IF name \in DOMAIN marks THEN <<marks[name]>> ELSE <<>>

\* a mark argument is used when it is given and not the empty string
Given(mark) == mark # <<>> /\ mark[1] # ""

\* Performance.measure: [threw, result]
measure(startMark, endMark) ==
  LET start == IF Given(startMark) THEN marksGet(startMark[1]) ELSE startTime
      end == IF Given(endMark) THEN marksGet(endMark[1]) ELSE <<clock>>
  IN  IF start = <<>>
        THEN [threw |-> TRUE, result |-> 0]
        ELSE [threw |-> FALSE,
              result |-> Round2((IF end = <<>> THEN 0 ELSE end[1]) - start[1])]

(***************************************************************************)
(* SpecDispatch: one logger, any transport list, the level filter and the  *)
(* fan-out.                                                                *)
(***************************************************************************)
InitRegistry ==
  /\ regContext = EmptyCtx
  /\ requestId = <<>>
  /\ sessionId = <<"s0">>

\* no JsonTransport takes part: the default constructor's fields
NoJson ==
  /\ maxBufferSize = DefaultMaxBufferSize
  /\ flushCallback = FALSE
  /\ timer = FALSE
  /\ buffer = <<>>
  /\ calls = <<>>
  /\ nextEntry = 1
  /\ jsonLast = NoJsonCall

NoScript ==
  /\ script = <<>>
  /\ writes = 0

NoStore ==
  /\ window = TRUE
  /\ storageMode = "working"
  /\ stored = <<>>
  /\ maxEntries = DefaultMaxEntries
  /\ logged = <<>>
  /\ lsLast = NoStoreCall

NoChild ==
  /\ configEnableConsole = TRUE
  /\ loggers = <<>>
  /\ ctxHeap = <<>>
  /\ arrHeap = <<>>
  /\ isolated = <<>>
  /\ childLast = NoChildCall

NoApi ==
  /\ apiCalls = <<>>
  /\ events = <<>>

NoRegCalls ==
  /\ regLast = NoRegCall

NoPerf ==
  /\ startTime = <<>>
  /\ marks = NoMarks
  /\ clock = 0
  /\ perfLast = NoPerfCall

NoDebounce ==
  /\ dbMounted = FALSE
  /\ dbValue = "A"
  /\ dbDelay = 1
  /\ debouncedValue = "A"
  /\ dbTimers = <<>>
  /\ now = 0
  /\ dbHeld = "A"
  /\ dbChanged = 0
  /\ dbLast = <<>>

(***************************************************************************)
(* handleApiError.  The value it is given: axios says whether              *)
(* axios.isAxiosError accepts it, dataError and dataMessage are            *)
(* response?.data?.error and response?.data?.message (<<>> when absent),   *)
(* value is the value as formatError sees it; its message is the empty     *)
(* string when the value has none.                                         *)
(***************************************************************************)
UnexpectedError == "An unexpected error occurred"

ApiErr(axios, dataError, dataMessage, value) ==
  [axios |-> axios, dataError |-> dataError, dataMessage |-> dataMessage, value |-> value]

\* a || b on optional strings: the first that is present and not empty
Or(a, b) == IF a # <<>> /\ a[1] # "" THEN a ELSE b

\* the message handleApiError picks, before it logs
errorMessageOf(error) ==
  IF error.axios
    THEN Or(Or(Or(error.dataError, error.dataMessage),
               IF error.value.kind \in {"Error", "object"}
                 THEN <<error.value.message>> ELSE <<>>),
            <<UnexpectedError>>)[1]
    ELSE IF error.value.kind = "Error"
      THEN error.value.message
      ELSE UnexpectedError

\* handleApiError: [eff, threw, thrown, result]
handleApiError(error) ==
  LET errorMessage == errorMessageOf(error)
      r == Log("error", "API error handled", Ctx1("errorMessage", errorMessage),
               error.value, <<>>, NoEff)
  IN  [eff |-> r.eff, threw |-> r.threw, thrown |-> r.thrown,
       result |-> IF r.threw THEN "" ELSE errorMessage]

Handled(op, error, r) ==
  [op |-> op, error |-> error, eff |-> r.eff, threw |-> r.threw,
   thrown |-> r.thrown, result |-> r.result]

NoHandled ==
  Handled("none", ApiErr(FALSE, <<>>, <<>>, Undefined),
          [eff |-> NoEff, threw |-> FALSE, thrown |-> Undefined, result |-> ""])

NoHandle ==
  /\ handled = NoHandled

NoDeliveries ==
  /\ deliveries = <<>>

NoHook ==
  /\ hookPhase = "initial"
  /\ hookDeps = <<"C", <<>>>>
  /\ mountTimeRef = 0
  /\ nextRef = 1
  /\ renders = 0
  /\ hookEntries = <<>>

NoHost ==
  /\ hostQueue = <<>>
  /\ raised = 0
  /\ dispatched = <<>>

InitDispatch ==
  /\ minLevel \in Levels
  /\ enablePerformance = FALSE
  /\ \E enableConsole \in BOOLEAN :
       transports = Constructor(enableConsole, <<>>, minLevel)
  /\ globalContext = EmptyCtx
  /\ InitRegistry
  /\ last = NoCall
  /\ task = Idle
  /\ NoJson
  /\ NoScript
  /\ NoStore
  /\ NoChild
  /\ NoApi
  /\ NoRegCalls
  /\ NoPerf
  /\ NoDebounce
  /\ NoHandle
  /\ NoDeliveries
  /\ NoHook
  /\ NoHost

NextDispatch ==
  \/ \E t \in TransportPool : AddTransport(t)
  \/ \E t \in TransportPool : RemoveTransport(t.name)
  \/ \E level \in Levels \ {"error"} : LogCall(level, EmptyCtx, Undefined)
  \/ \E err \in ErrValues : LogCall("error", EmptyCtx, err)

SpecDispatch == InitDispatch /\ [][NextDispatch]_vars

(***************************************************************************)
(* Spec: one logger with its console transport, the context registry, and  *)
(* every logging call with any context and any error value.                *)
(***************************************************************************)
GlobalContexts == {EmptyCtx, [a |-> "1"]}

SiteContexts == {EmptyCtx, [a |-> "3", c |-> "4"], [sessionId |-> "mine"]}

RegistryKeys == {"a", "b"}

RequestIds == {"r1"}

FnOutcomes == {Fn("return", PlainObject)} \cup {Fn("throw", e) : e \in ErrValues}

Init ==
  /\ minLevel \in Levels
  /\ enablePerformance \in BOOLEAN
  /\ transports = Constructor(TRUE, <<>>, minLevel)
  /\ globalContext \in GlobalContexts
  /\ InitRegistry
  /\ last = NoCall
  /\ task = Idle
  /\ NoJson
  /\ NoScript
  /\ NoStore
  /\ NoChild
  /\ NoApi
  /\ NoRegCalls
  /\ NoPerf
  /\ NoDebounce
  /\ NoHandle
  /\ NoDeliveries
  /\ NoHook
  /\ NoHost

Next ==
  \/ \E k \in RegistryKeys : SetContext(k, "2")
  \/ \E k \in RegistryKeys : ClearContext(<<k>>)
  \/ ClearContext(<<>>)
  \/ \E id \in RequestIds : GenerateRequestId(id)
  \/ ClearRequestId
  \/ \E level \in Levels \ {"error"}, site \in SiteContexts :
       LogCall(level, site, Undefined)
  \/ \E site \in SiteContexts, err \in ErrValues : LogCall("error", site, err)
  \/ \E site \in SiteContexts, m \in MetricsValues : Perf(site, m)

Spec == Init /\ [][Next]_vars

(***************************************************************************)
(* SpecTrack: track and trackAsync around a function that returns or       *)
(* fails with any value, with other logging calls and request-id changes   *)
(* arriving while the asynchronous one is suspended.                       *)
(***************************************************************************)
InitTrack ==
  /\ minLevel \in Levels
  /\ enablePerformance \in BOOLEAN
  /\ transports = Constructor(TRUE, <<>>, minLevel)
  /\ globalContext = EmptyCtx
  /\ InitRegistry
  /\ last = NoCall
  /\ task = Idle
  /\ NoJson
  /\ NoScript
  /\ NoStore
  /\ NoChild
  /\ NoApi
  /\ NoRegCalls
  /\ NoPerf
  /\ NoDebounce
  /\ NoHandle
  /\ NoDeliveries
  /\ NoHook
  /\ NoHost

NextTrack ==
  \/ \E fn \in FnOutcomes, site \in SiteContexts, m \in MetricsValues :
       Track(fn, site, m)
  \/ \E site \in SiteContexts : TrackAsyncStart(site)
  \/ \E fn \in FnOutcomes, m \in MetricsValues : TrackAsyncSettle(fn, m)
  \/ \E fn \in FnOutcomes, site \in SiteContexts, m \in MetricsValues :
       TrackAsyncThrows(fn, site, m)
  \/ \E level \in Levels \ {"error"} : LogCall(level, EmptyCtx, Undefined)
  \/ \E id \in RequestIds : GenerateRequestId(id)
  \/ ClearRequestId

SpecTrack == InitTrack /\ [][NextTrack]_vars

(***************************************************************************)
(* SpecJson: one JsonTransport, used directly.                             *)
(***************************************************************************)
InitJson ==
  /\ minLevel = "debug"
  /\ enablePerformance = FALSE
  /\ transports = <<>>
  /\ globalContext = EmptyCtx
  /\ InitRegistry
  /\ last = NoCall
  /\ task = Idle
  /\ maxBufferSize \in 1..MaxBufferSize
  /\ flushCallback \in BOOLEAN
  /\ timer \in BOOLEAN
  /\ buffer = <<>>
  /\ calls = <<>>
  /\ nextEntry = 1
  /\ jsonLast = NoJsonCall
  /\ NoScript
  /\ NoStore
  /\ NoChild
  /\ NoApi
  /\ NoRegCalls
  /\ NoPerf
  /\ NoDebounce
  /\ NoHandle
  /\ NoDeliveries
  /\ NoHook
  /\ NoHost

NextJson ==
  \/ \E outcome \in CallbackOutcomes : JsonLog(outcome)
  \/ \E outcome \in CallbackOutcomes : JsonFlush(outcome)
  \/ \E outcome \in CallbackOutcomes : JsonTick(outcome)
  \/ \E i \in DOMAIN calls : CallbackResolves(i)
  \/ \E i \in DOMAIN calls : CallbackRejects(i)

SpecJson == InitJson /\ [][NextJson]_vars

(***************************************************************************)
(* Properties of the level filter and the fan-out (SpecDispatch).          *)
(***************************************************************************)
\* how often the transport at position i had its log invoked by the last call
Count(i) ==
  Cardinality({k \in DOMAIN last.eff.recv : last.eff.recv[k].i = i})

Rank(level) == LOG_LEVELS[level]

\* the transport has no shouldLog, or its shouldLog(level) returns true
Accepts(t, level) ==
  \/ t.filter = "none"
  \/ t.filter = "level" /\ Rank(level) >= Rank(t.min)

\* the transport's shouldLog or log throws synchronously when given the level
ThrowsSync(t, level) ==
  \/ t.filter = "throws"
  \/ Accepts(t, level) /\ t.sink = "throws"

Reported(name) == \E k \in DOMAIN last.eff.fallback : last.eff.fallback[k] = name

\* C1: a debug/info/warn/error call at level L invokes the log of every
\* registered transport exactly once when rank(L) >= rank(minLevel) and the
\* transport has no shouldLog or its shouldLog(L) is true, and does not
\* invoke it in any other case.
C1_LevelFilter ==
  last.op = "log" =>
    \A i \in 1..Len(transports) :
      Count(i) = IF Rank(last.level) >= Rank(minLevel)
                    /\ Accepts(transports[i], last.level)
                   THEN 1 ELSE 0

\* C2: when a transport's log or shouldLog throws synchronously during a
\* logging call, every other transport that accepts the level still gets the
\* entry exactly once, console.error names the failing transport, and the
\* call returns normally.
C2_SyncThrowIsolated ==
  (last.op = "log" /\ last.eff.entries # <<>>) =>
    \A j \in 1..Len(transports) :
      ThrowsSync(transports[j], last.level) =>
        /\ \A i \in 1..Len(transports) :
             (i # j /\ Accepts(transports[i], last.level)) => Count(i) = 1
        /\ Reported(transports[j].name)
        /\ ~last.threw

\* a thrower in the middle of three transports, its neighbours both served
C2_Witness ==
  /\ last.op = "log"
  /\ Len(transports) = 3
  /\ transports[2].sink = "throws"
  /\ Count(2) = 1
  /\ Reported(transports[2].name)
  /\ Count(1) = 1
  /\ Count(3) = 1

\* C3: when a transport's log returns a promise that rejects, the logger
\* reports the failure through console.error naming the transport, nothing is
\* left as an unhandled rejection or raised to the caller, and the other
\* transports still get the entry.
C3_RejectionCaught ==
  last.op = "log" =>
    \A j \in 1..Len(transports) :
      (transports[j].sink = "rejects" /\ Count(j) >= 1) =>
        /\ Reported(transports[j].name)
        /\ last.eff.unhandled = <<>>
        /\ ~last.threw
        /\ \A i \in 1..Len(transports) :
             (i # j /\ Accepts(transports[i], last.level)) => Count(i) = 1

(***************************************************************************)
(* Properties of track and trackAsync (SpecTrack).                         *)
(***************************************************************************)
Entries == last.eff.entries

ErrorEntries == {n \in DOMAIN Entries : Entries[n].level = "error"}

Shape(e) ==
  [level |-> e.level, message |-> e.message, metrics |-> e.performance # <<>>]

Shapes == [n \in DOMAIN Entries |-> Shape(Entries[n])]

\* C4: when the wrapped fn throws or rejects with a value e, track and
\* trackAsync fail with that same value e, after exactly one error-level
\* entry "Failed: op" was dispatched, which comes after the "Starting: op"
\* entry.
C4_RethrowsAfterOneErrorEntry ==
  (last.op \in {"track", "trackAsync"} /\ last.fn.kind = "throw") =>
    /\ last.threw
    /\ last.thrown = last.fn.value
    /\ Cardinality(ErrorEntries) = 1
    /\ \A n \in ErrorEntries :
         /\ Entries[n].message = "Failed: op"
         /\ \A k \in DOMAIN Entries :
              Entries[k].message = "Starting: op" => k < n

\* C5 as claimed: on a logger whose minLevel is debug, a successful fn makes
\* track and trackAsync dispatch exactly a debug "Starting: op" entry and then
\* a debug "Completed: op" entry carrying the metrics, and return fn's result.
C5_StartingThenCompleted ==
  (last.op \in {"track", "trackAsync"} /\ last.fn.kind = "return"
     /\ minLevel = "debug") =>
    /\ Shapes = <<[level |-> "debug", message |-> "Starting: op", metrics |-> FALSE],
                  [level |-> "debug", message |-> "Completed: op", metrics |-> TRUE]>>
    /\ ~last.threw
    /\ last.result = last.fn.value

\* C5 as amended: the same, on a logger whose minLevel is debug and whose
\* enablePerformance flag is true.
C5_StartingThenCompletedIfPerfEnabled ==
  (last.op \in {"track", "trackAsync"} /\ last.fn.kind = "return"
     /\ minLevel = "debug" /\ enablePerformance) =>
    /\ Shapes = <<[level |-> "debug", message |-> "Starting: op", metrics |-> FALSE],
                  [level |-> "debug", message |-> "Completed: op", metrics |-> TRUE]>>
    /\ Entries[2].performance[1] \in MetricsValues
    /\ ~last.threw
    /\ last.result = last.fn.value

\* a trackAsync call that was suspended, resumed with fn's result and logged both
C5_Witness ==
  /\ last.op = "trackAsync"
  /\ last.fn = Fn("return", PlainObject)
  /\ minLevel = "debug"
  /\ enablePerformance
  /\ Len(Entries) = 2
  /\ Entries[2].message = "Completed: op"
  /\ last.result = PlainObject

(***************************************************************************)
(* Properties of the entry a logging call builds (Spec).                   *)
(***************************************************************************)
\* the ambient registry context: the registry's mapping plus requestId and
\* sessionId when they are set
AmbientKeys ==
  (DOMAIN regContext)
    \cup (IF requestId # <<>> THEN {"requestId"} ELSE {})
    \cup (IF sessionId # <<>> THEN {"sessionId"} ELSE {})

AmbientValue(k) ==
  IF k = "sessionId" /\ sessionId # <<>> THEN sessionId[1]
  ELSE IF k = "requestId" /\ requestId # <<>> THEN requestId[1]
  ELSE regContext[k]

\* C6: the context of a dispatched entry maps every key to the call-site
\* value if the call-site context has the key, else to the ambient registry
\* value if that has it, else to the logger's global-context value; a key in
\* none of the three is absent.
C6_ContextPrecedence ==
  last.op \in {"log", "perf"} =>
    \A n \in DOMAIN Entries :
      /\ Entries[n].context # <<>>
      /\ DOMAIN Entries[n].context[1] =
           (DOMAIN last.site) \cup AmbientKeys \cup (DOMAIN globalContext)
      /\ \A k \in DOMAIN Entries[n].context[1] :
           Entries[n].context[1][k] =
             IF k \in DOMAIN last.site THEN last.site[k]
             ELSE IF k \in AmbientKeys THEN AmbientValue(k)
             ELSE globalContext[k]

\* global {a:1}, ambient {b:2}, call-site {a:3,c:4} give {a:3,b:2,c:4} plus
\* the registry's session id
C6_Witness ==
  /\ last.op = "log"
  /\ globalContext = [a |-> "1"]
  /\ regContext = [b |-> "2"]
  /\ requestId = <<>>
  /\ last.site = [a |-> "3", c |-> "4"]
  /\ Len(Entries) = 1
  /\ Entries[1].context = <<[a |-> "3", b |-> "2", c |-> "4", sessionId |-> "s0"]>>

\* C7: error(message, err, context) returns normally for every value of err
\* (a native error, any object, any primitive) and the dispatched entry
\* carries an error descriptor with a name and a message.
C7_ErrorNormalizationNeverRaises ==
  (last.op = "log" /\ last.level = "error" /\ last.err # Undefined) =>
    /\ ~last.threw
    /\ Len(Entries) = 1
    /\ Entries[1].error # <<>>
    /\ Entries[1].error[1].name # ""

(***************************************************************************)
(* Properties of JsonTransport (SpecJson).                                 *)
(***************************************************************************)
Elems(seq) == {seq[k] : k \in DOMAIN seq}

Failed(i) == calls[i].status \in {"rejected", "threw"}

\* C8: after every log call the buffer holds fewer than maxBufferSize
\* entries; the log call that brings it to maxBufferSize flushes at once,
\* without a timer tick, handing exactly those entries to the callback in
\* insertion order and leaving the buffer empty.
C8_FlushAtMaxBufferSize ==
  jsonLast.op = "log" =>
    /\ Len(buffer) < maxBufferSize
    /\ Len(jsonLast.before) + 1 = maxBufferSize =>
         /\ buffer = <<>>
         /\ flushCallback =>
              /\ Len(calls) = jsonLast.ncalls + 1
              /\ calls[Len(calls)].batch = Append(jsonLast.before, jsonLast.entry)
    /\ Len(jsonLast.before) + 1 < maxBufferSize =>
         /\ buffer = Append(jsonLast.before, jsonLast.entry)
         /\ Len(calls) = jsonLast.ncalls

\* the third log call on a transport with maxBufferSize 3 flushes <<1, 2, 3>>
C8_Witness ==
  /\ jsonLast.op = "log"
  /\ maxBufferSize = 3
  /\ flushCallback
  /\ jsonLast.before = <<1, 2>>
  /\ buffer = <<>>
  /\ Len(calls) = 1
  /\ calls[1].batch = <<1, 2, 3>>

\* C9: when the flush callback throws or rejects, flush() still completes
\* without raising, the buffer holds none of that batch's entries, and no
\* other invocation of the callback is given any of them.
C9_FailedBatchIsLost ==
  \A i \in DOMAIN calls :
    Failed(i) =>
      /\ calls[i].flush = "fulfilled"
      /\ calls[i].reported = 1
      /\ Elems(calls[i].batch) \cap Elems(buffer) = {}
      /\ \A j \in DOMAIN calls :
           j # i => Elems(calls[i].batch) \cap Elems(calls[j].batch) = {}

\* a batch was rejected, and later entries were logged and flushed after it
C9_Witness ==
  /\ Len(calls) >= 2
  /\ calls[1].status = "rejected"
  /\ calls[2].status = "resolved"
  /\ buffer # <<>>

\* C10 as claimed: the queue is emptied only after the callback has been
\* invoked with the batch, so the callback finds the queue still holding it.
C10_QueueClearedAfterCallback ==
  \A i \in DOMAIN calls : calls[i].seen = calls[i].batch

\* C10 as amended: flush empties the queue before it invokes the callback;
\* the callback gets the snapshot taken before and finds the queue empty.
C10_QueueClearedBeforeCallback ==
  /\ \A i \in DOMAIN calls : calls[i].seen = <<>> /\ calls[i].batch # <<>>
  /\ (jsonLast.op \in {"flush", "tick"} /\ Len(calls) = jsonLast.ncalls + 1) =>
       calls[Len(calls)].batch = jsonLast.before

\* an explicit flush handed a two-entry snapshot to the callback
C10_Witness ==
  /\ jsonLast.op = "flush"
  /\ Len(calls) = 1
  /\ calls[1].batch = <<1, 2>>
  /\ calls[1].seen = <<>>
  /\ buffer = <<>>

(***************************************************************************)
(* SpecPipeline: a logger built with enableConsole and one JsonTransport   *)
(* in config.transports.  The constructor puts the ConsoleTransport in     *)
(* front; the JsonTransport has no shouldLog and buffers what it is given. *)
(***************************************************************************)
MaxCalls == 3

BufferedTransport == Transport("json", "none", "debug", "ok")

PipelineCall(level, message) == [level |-> level, message |-> message]

PipelineCalls ==
  { PipelineCall("debug", "x"), PipelineCall("info", "a"), PipelineCall("warn", "b") }

\* the entries the last call handed to the transports of that name
Received(r, name) ==
  SelectSeq(r.eff.recv, LAMBDA d : transports[d.i].name = name)

\* logger.debug / info / warn (message): Logger.log fans the entry out, the
\* ConsoleTransport writes it and JsonTransport.log buffers it and may flush
PipelineLog(c, outcome) ==
  /\ Len(script) < MaxCalls
  /\ LET r == Log(c.level, c.message, EmptyCtx, Undefined, <<>>, NoEff)
         json == Received(r, "json")
         j == IF json = <<>>
                THEN [buffer |-> buffer, calls |-> calls]
                ELSE jsonLog(buffer, calls, json[1].e, outcome)
     IN  /\ last' = Call("log", c.level, EmptyCtx, Undefined, NoFn, r)
         /\ writes' = writes + Len(Received(r, "console"))
         /\ buffer' = j.buffer
         /\ calls' = j.calls
  /\ script' = Append(script, c)
  /\ UNCHANGED <<hostVars, hookVars, orderVars, handleVars, debounceVars, perfVars, regHistVars, apiVars, childVars, storeVars, loggerVars, registryVars, task,
                 maxBufferSize, flushCallback, timer, nextEntry, jsonLast>>

InitPipeline ==
  /\ minLevel \in {"debug", "info"}
  /\ enablePerformance = FALSE
  /\ transports = Constructor(TRUE, <<BufferedTransport>>, minLevel)
  /\ globalContext = EmptyCtx
  /\ InitRegistry
  /\ last = NoCall
  /\ task = Idle
  /\ maxBufferSize \in 1..MaxBufferSize
  /\ flushCallback = TRUE
  /\ timer = FALSE
  /\ buffer = <<>>
  /\ calls = <<>>
  /\ nextEntry = 1
  /\ jsonLast = NoJsonCall
  /\ NoScript
  /\ NoStore
  /\ NoChild
  /\ NoApi
  /\ NoRegCalls
  /\ NoPerf
  /\ NoDebounce
  /\ NoHandle
  /\ NoDeliveries
  /\ NoHook
  /\ NoHost

NextPipeline ==
  \/ \E c \in PipelineCalls, outcome \in CallbackOutcomes : PipelineLog(c, outcome)
  \/ \E i \in DOMAIN calls : CallbackResolves(i)
  \/ \E i \in DOMAIN calls : CallbackRejects(i)

SpecPipeline == InitPipeline /\ [][NextPipeline]_vars

Messages(es) == [k \in DOMAIN es |-> es[k].message]

TheScenario ==
  /\ minLevel = "info"
  /\ maxBufferSize = 2
  /\ Len(transports) = 2
  /\ transports[1].name = "console"
  /\ transports[2].name = "json"

\* C11: with minLevel info, a console transport and one buffered transport
\* of maxBufferSize 2, the calls debug('x'), info('a'), warn('b') invoke the
\* flush callback exactly once, with the entries a and b in call order, and
\* the console is written to exactly twice; the debug call reaches neither
\* transport and does not count toward the threshold.
C11_DebugDroppedBatchOfTwo ==
  TheScenario =>
    /\ script = <<PipelineCall("debug", "x")>> =>
         (writes = 0 /\ buffer = <<>> /\ calls = <<>> /\ last.eff.recv = <<>>)
    /\ script = <<PipelineCall("debug", "x"), PipelineCall("info", "a")>> =>
         (writes = 1 /\ Messages(buffer) = <<"a">> /\ calls = <<>>)
    /\ script = <<PipelineCall("debug", "x"), PipelineCall("info", "a"),
                  PipelineCall("warn", "b")>> =>
         (writes = 2 /\ Len(calls) = 1 /\ Messages(calls[1].batch) = <<"a", "b">>
          /\ buffer = <<>>)

C11_Witness ==
  /\ TheScenario
  /\ script = <<PipelineCall("debug", "x"), PipelineCall("info", "a"),
                PipelineCall("warn", "b")>>
  /\ Len(calls) = 1
  /\ Messages(calls[1].batch) = <<"a", "b">>
  /\ writes = 2

(***************************************************************************)
(* SpecStore: one LocalStorageTransport over a store in any condition.     *)
(* SpecStoreWorking: the same transport over a store that starts empty and *)
(* keeps working.                                                          *)
(***************************************************************************)
MaxEntries == 2
MaxStoreLogs == 4

otherVars == <<loggerVars, registryVars, historyVars, jsonVars, e2eVars>>

\* transport.log(entry); the entries are numbered as they are logged
StoreLog(body) ==
  /\ Len(logged) < MaxStoreLogs
  /\ LET entry == StoreEntry(Len(logged) + 1, body)
         r == lsLog(entry)
     IN  /\ stored' = r.stored
         /\ logged' = Append(logged, entry)
         /\ lsLast' = StoreCall("log", entry, stored, FALSE, r.warned, EmptyList)
  /\ UNCHANGED <<hostVars, hookVars, orderVars, handleVars, debounceVars, perfVars, regHistVars, apiVars, childVars, otherVars, window, storageMode, maxEntries>>

\* transport.getLogs()
StoreGetLogs ==
  /\ lsLast' = StoreCall("getLogs", StoreEntry(0, "json"), stored, FALSE, FALSE, getLogs)
  /\ UNCHANGED <<hostVars, hookVars, orderVars, handleVars, debounceVars, perfVars, regHistVars, apiVars, childVars, otherVars, window, storageMode, stored, maxEntries, logged>>

\* transport.clear(); the history starts again when the item is removed
StoreClear ==
  /\ stored' = lsClear.stored
  /\ logged' = IF lsClear.stored = <<>> THEN <<>> ELSE logged
  /\ lsLast' = StoreCall("clear", StoreEntry(0, "json"), stored, lsClear.threw, FALSE,
                         EmptyList)
  /\ UNCHANGED <<hostVars, hookVars, orderVars, handleVars, debounceVars, perfVars, regHistVars, apiVars, childVars, otherVars, window, storageMode, maxEntries>>

\* the browser's storage fills up, is disabled, or recovers
StorageChanges(mode) ==
  /\ mode # storageMode
  /\ storageMode' = mode
  /\ lsLast' = NoStoreCall
  /\ UNCHANGED <<hostVars, hookVars, orderVars, handleVars, debounceVars, perfVars, regHistVars, apiVars, childVars, otherVars, window, stored, maxEntries, logged>>

NoLogger ==
  /\ minLevel = "debug"
  /\ enablePerformance = FALSE
  /\ transports = <<>>
  /\ globalContext = EmptyCtx
  /\ InitRegistry
  /\ last = NoCall
  /\ task = Idle

StoredAtStart ==
  { <<>>, <<EmptyList>>, <<JsonText("object", <<>>)>>, <<JsonText("garbage", <<>>)>> }

InitStore ==
  /\ NoLogger
  /\ NoJson
  /\ NoScript
  /\ window \in BOOLEAN
  /\ storageMode \in StorageModes
  /\ stored \in StoredAtStart
  /\ maxEntries \in 0..MaxEntries
  /\ logged = <<>>
  /\ lsLast = NoStoreCall
  /\ NoChild
  /\ NoApi
  /\ NoRegCalls
  /\ NoPerf
  /\ NoDebounce
  /\ NoHandle
  /\ NoDeliveries
  /\ NoHook
  /\ NoHost

NextStore ==
  \/ \E body \in Bodies : StoreLog(body)
  \/ StoreGetLogs
  \/ StoreClear
  \/ \E mode \in StorageModes : StorageChanges(mode)

SpecStore == InitStore /\ [][NextStore]_vars

InitStoreWorking ==
  /\ NoLogger
  /\ NoJson
  /\ NoScript
  /\ window = TRUE
  /\ storageMode = "working"
  /\ stored = <<>>
  /\ maxEntries \in 0..MaxEntries
  /\ logged = <<>>
  /\ lsLast = NoStoreCall
  /\ NoChild
  /\ NoApi
  /\ NoRegCalls
  /\ NoPerf
  /\ NoDebounce
  /\ NoHandle
  /\ NoDeliveries
  /\ NoHook
  /\ NoHost

NextStoreWorking ==
  \/ \E body \in Bodies : StoreLog(body)
  \/ StoreGetLogs
  \/ StoreClear

SpecStoreWorking == InitStoreWorking /\ [][NextStoreWorking]_vars

Ids(es) == [k \in DOMAIN es |-> es[k].id]

Reverse(s) == [k \in 1..Len(s) |-> s[Len(s) + 1 - k]]

Serialisable(e) == e.body # "cyclic"

\* C12 as stated: after n log calls on an initially empty, working store,
\* getLogs() returns exactly min(n, maxEntries) entries, newest first: the
\* oldest are dropped and no other entry is lost or duplicated.
C12_NewestFirstCapped ==
  /\ getLogs.kind = "array"
  /\ Ids(getLogs.items) = Take(Reverse(Ids(logged)), maxEntries)

\* C12: after n log calls on an initially empty, working store, of which m
\* were given an entry that JSON.stringify accepts, getLogs() returns exactly
\* min(m, maxEntries) entries, those of the most recent such calls, newest
\* first; an entry that cannot be serialised is not stored, and with
\* maxEntries > 0 the call leaves the stored item as it was and warns.
C12_NewestFirstCappedOfSerialisable ==
  /\ getLogs.kind = "array"
  /\ Ids(getLogs.items) = Take(Reverse(Ids(SelectSeq(logged, Serialisable))), maxEntries)
  /\ (lsLast.op = "log" /\ ~Serialisable(lsLast.entry) /\ maxEntries > 0) =>
       (stored = lsLast.before /\ lsLast.warned)

\* three serialisable entries into a store capped at two: the oldest is gone
C12_Witness ==
  /\ maxEntries = 2
  /\ Len(logged) = 3
  /\ \A k \in DOMAIN logged : Serialisable(logged[k])
  /\ lsLast.op = "getLogs"
  /\ Ids(lsLast.result.items) = <<3, 2>>

Failing ==
  \/ ~window
  \/ storageMode # "working"
  \/ (lsLast.before # <<>> /\ lsLast.before[1].kind = "garbage")

\* C13: no LocalStorageTransport operation raises when the store is absent
\* or failing: log returns normally, getLogs returns an empty list when the
\* store is absent, inaccessible or holds unparsable data, and clear on an
\* absent or inaccessible store changes nothing.
C13_NeverRaises ==
  (lsLast.op # "none" /\ Failing) =>
    /\ ~lsLast.threw
    /\ (lsLast.op = "getLogs"
        /\ (~window \/ storageMode = "denied" \/ lsLast.before = <<>>
            \/ lsLast.before[1].kind = "garbage")) => lsLast.result = EmptyList
    /\ (lsLast.op = "clear" /\ (~window \/ storageMode = "denied")) =>
         stored = lsLast.before

(***************************************************************************)
(* SpecChild: a root logger, the loggers made from it with child(), writes *)
(* to the context objects, and logging calls on any of them.               *)
(***************************************************************************)
MaxLoggers == 2

RootContexts == {EmptyCtx, [a |-> "1"]}
ChildContexts == {EmptyCtx, [a |-> "2"], [b |-> "2"]}
ContextKeys == {"a", "b"}
ChildSites == {EmptyCtx, [c |-> "4"]}

nonChildVars == <<otherVars, storeVars, apiVars, regHistVars, perfVars, debounceVars>>

\* parent.child(context)
Child(p, context) ==
  /\ Len(loggers) < MaxLoggers
  /\ p \in DOMAIN loggers
  /\ LET c == childContext(ctxHeap, loggers[p].ctx, context)
     IN  /\ ctxHeap' = c.heap
         /\ loggers' = Append(loggers, LoggerRef(c.ref, loggers[p].arr, p, context))
  /\ arrHeap' = constructorUnshift(arrHeap, loggers[p].arr)
  /\ isolated' = Append(isolated, Spread(isolated[p], context))
  /\ childLast' = NoChildCall
  /\ UNCHANGED <<hostVars, hookVars, orderVars, handleVars, nonChildVars, configEnableConsole>>

\* a write obj[key] = "3" to the object the globalContext of logger l refers
\* to (the root's is the object its creator passed as config.context)
ChangeContext(l, key) ==
  /\ l \in DOMAIN loggers
  /\ ctxHeap' = [ctxHeap EXCEPT ![loggers[l].ctx] = Spread(@, Ctx1(key, "3"))]
  /\ isolated' = [isolated EXCEPT ![l] = Spread(@, Ctx1(key, "3"))]
  /\ childLast' = NoChildCall
  /\ UNCHANGED <<hostVars, hookVars, orderVars, handleVars, nonChildVars, configEnableConsole, loggers, arrHeap>>

\* logger l .info("m", site)
ChildLog(l, site) ==
  /\ l \in DOMAIN loggers
  /\ childLast' = ChildCall("log", l, site,
                            LogOf(ctxHeap[loggers[l].ctx], arrHeap[loggers[l].arr],
                                  "info", "m", site, Undefined, <<>>, NoEff))
  /\ UNCHANGED <<hostVars, hookVars, orderVars, handleVars, nonChildVars, configEnableConsole, loggers, ctxHeap, arrHeap, isolated>>

InitChild ==
  /\ minLevel \in {"info", "warn"}
  /\ enablePerformance = FALSE
  /\ transports = <<>>
  /\ globalContext = EmptyCtx
  /\ InitRegistry
  /\ last = NoCall
  /\ task = Idle
  /\ NoJson
  /\ NoScript
  /\ NoStore
  /\ configEnableConsole \in BOOLEAN
  /\ loggers = <<LoggerRef(1, 1, 0, EmptyCtx)>>
  /\ ctxHeap \in {<<c>> : c \in RootContexts}
  /\ arrHeap = <<Constructor(configEnableConsole, <<>>, minLevel)>>
  /\ isolated = ctxHeap
  /\ childLast = NoChildCall
  /\ NoApi
  /\ NoRegCalls
  /\ NoPerf
  /\ NoDebounce
  /\ NoHandle
  /\ NoDeliveries
  /\ NoHook
  /\ NoHost

NextChild ==
  \/ \E p \in DOMAIN loggers, context \in ChildContexts : Child(p, context)
  \/ \E l \in DOMAIN loggers, key \in ContextKeys : ChangeContext(l, key)
  \/ \E l \in DOMAIN loggers, site \in ChildSites : ChildLog(l, site)

SpecChild == InitChild /\ [][NextChild]_vars

\* the context of the entry the last call dispatched
EntryContext == childLast.eff.entries[1].context[1]

\* a key that only children of logger l were given
OnlyFromChildren(l, key) ==
  /\ \E c \in DOMAIN loggers : loggers[c].parent = l /\ key \in DOMAIN loggers[c].given
  /\ key \notin DOMAIN isolated[l]
  /\ key \notin DOMAIN getAllContext
  /\ key \notin DOMAIN childLast.site

\* C14: a logger made by child(ctx) emits entries whose global context is
\* the parent's global context (as it was when child was called) overlaid
\* with ctx; the parent's entries never contain a key that only ctx
\* contributed; a later change to the context of one logger does not show
\* in the entries of another.
C14_ChildContextIsolated ==
  /\ \A l \in DOMAIN loggers : ctxHeap[loggers[l].ctx] = isolated[l]
  /\ (childLast.op = "log" /\ childLast.eff.entries # <<>>) =>
       /\ EntryContext =
            Spread(Spread(isolated[childLast.logger], getAllContext), childLast.site)
       /\ \A key \in ContextKeys :
            OnlyFromChildren(childLast.logger, key) => key \notin DOMAIN EntryContext

\* the root logs after a child was given key b and the child's a was changed
C14_Witness ==
  /\ childLast.op = "log"
  /\ childLast.logger = 1
  /\ childLast.eff.entries # <<>>
  /\ Len(loggers) >= 2
  /\ loggers[2].parent = 1
  /\ loggers[2].given = [b |-> "2"]
  /\ isolated[2] = [a |-> "3", b |-> "2"]
  /\ isolated[1] = [a |-> "1"]
  /\ EntryContext = [a |-> "1", sessionId |-> "s0"]

(***************************************************************************)
(* SpecApi: the axios interceptors of createApiClient on the default       *)
(* logger and the shared registry.  Calls may overlap: a call is           *)
(* dispatched (request interceptor) and later settles with a response or   *)
(* with an error (response / error interceptor).  The request ids are the  *)
(* strings nanoid returns, one per dispatch.                               *)
(***************************************************************************)
MaxApiCalls == 2

RequestIdPool == <<"r1", "r2", "r3", "r4">>

SlowThreshold == 2000
Durations == {100, 2500}

\* response.data: a JSON value, the empty string, or undefined (no body)
ResponseBodies == {"json", "empty", "absent"}

\* JSON.stringify(response.data).length: JSON.stringify(undefined) is
\* undefined, and reading its length throws a TypeError
dataSizeThrows(body) == body = "absent"

\* error.response set, only error.request set, or neither
ErrorKinds == {"response", "request", "setup"}

ErrorMessage(kind) ==
  IF kind = "response" THEN "API Error Response"
  ELSE IF kind = "request" THEN "API No Response"
  ELSE "API Request Setup Error"

\* the requestId property of the context object the call site builds
SiteRequestId(id) == IF id = <<>> THEN EmptyCtx ELSE Ctx1("requestId", id[1])

\* logApiResponse that reads the id of its own call off the request config
responseRequestIdOwn(call) == <<RequestIdPool[call]>>

\* logApiResponse / logApiError: loggerContext.getCurrentRequestId() ?? undefined
responseRequestId(call) == requestId

ApiEvent(op, call, input, before, threw, settled, entries) ==
  [op |-> op, call |-> call, input |-> input, before |-> before, threw |-> threw,
   settled |-> settled, entries |-> entries]

InFlight == {k \in DOMAIN apiCalls : apiCalls[k].phase = "inflight"}

nonApiVars == <<jsonVars, e2eVars, storeVars, childVars, historyVars, regHistVars, perfVars,
               debounceVars>>

\* request interceptor: logApiRequest generates the id, then logs at debug
\* (the entry is built in the state that generateRequestId leaves behind)
ApiRequest ==
  /\ Len(apiCalls) < MaxApiCalls
  /\ LET k == Len(apiCalls) + 1
         id == RequestIdPool[k]
     IN  /\ requestId' = <<id>>
         /\ UNCHANGED <<hostVars, hookVars, orderVars, handleVars, loggerVars, regContext, sessionId>>
         /\ apiCalls' = Append(apiCalls, [phase |-> "inflight", overlap |-> InFlight # {}])
         /\ events' = Append(events,
              ApiEvent("request", k, "config", requestId, FALSE, "config",
                       (Log("debug", "API Request", SiteRequestId(requestId),
                            Undefined, <<>>, NoEff).eff.entries)'))
  /\ UNCHANGED nonApiVars

\* response interceptor: logApiResponse, logSlowApiCall, return response
ApiResponse(k, body, duration) ==
  /\ k \in InFlight
  /\ apiCalls' = [apiCalls EXCEPT ![k].phase = "done"]
  /\ UNCHANGED <<hostVars, hookVars, orderVars, handleVars, loggerVars, regContext, sessionId>>
  /\ IF dataSizeThrows(body)
       THEN /\ requestId' = requestId
            /\ events' = Append(events,
                 ApiEvent("response", k, body, requestId, TRUE, "TypeError", <<>>))
       ELSE /\ requestId' = <<>>
            /\ events' = Append(events,
                 ApiEvent("response", k, body, requestId, FALSE, "response",
                   Log("info", "API Response", SiteRequestId(responseRequestId(k)),
                       Undefined, <<>>, NoEff).eff.entries
                   \o (IF duration > SlowThreshold
                         THEN (Log("warn", "Slow API call detected", EmptyCtx,
                                   Undefined, <<>>, NoEff).eff.entries)'
                         ELSE <<>>)))
  /\ UNCHANGED nonApiVars

\* error interceptor: logApiError, then Promise.reject(error)
ApiError(k, kind) ==
  /\ k \in InFlight
  /\ apiCalls' = [apiCalls EXCEPT ![k].phase = "done"]
  /\ UNCHANGED <<hostVars, hookVars, orderVars, handleVars, loggerVars, regContext, sessionId>>
  /\ requestId' = <<>>
  /\ events' = Append(events,
       ApiEvent("error", k, kind, requestId, FALSE, "rejected with error",
                Log("error", ErrorMessage(kind), SiteRequestId(responseRequestId(k)),
                    NativeError, <<>>, NoEff).eff.entries))
  /\ UNCHANGED nonApiVars

\* the default logger of index.ts: debug when NEXT_PUBLIC_ENABLE_DEBUG, else warn
InitApi ==
  /\ minLevel \in {"debug", "warn"}
  /\ enablePerformance = (minLevel = "debug")
  /\ transports = Constructor(TRUE, <<>>, minLevel)
  /\ globalContext = EmptyCtx
  /\ InitRegistry
  /\ last = NoCall
  /\ task = Idle
  /\ NoJson
  /\ NoScript
  /\ NoStore
  /\ NoChild
  /\ apiCalls = <<>>
  /\ events = <<>>
  /\ NoRegCalls
  /\ NoPerf
  /\ NoDebounce
  /\ NoHandle
  /\ NoDeliveries
  /\ NoHook
  /\ NoHost

NextApi ==
  \/ ApiRequest
  \/ \E k \in DOMAIN apiCalls, body \in ResponseBodies, duration \in Durations :
       ApiResponse(k, body, duration)
  \/ \E k \in DOMAIN apiCalls, kind \in ErrorKinds : ApiError(k, kind)

SpecApi == InitApi /\ [][NextApi]_vars

(***************************************************************************)
(* Properties of the API interceptors (SpecApi).                           *)
(***************************************************************************)
\* no call was dispatched while another one was in flight
NonOverlapping == \A k \in DOMAIN apiCalls : ~apiCalls[k].overlap

\* the entries of an interceptor run that logApiRequest / logApiResponse /
\* logApiError dispatched (logSlowApiCall's entry comes after them)
ApiEntries(e) == SelectSeq(e.entries, LAMBDA x : x.message # "Slow API call detected")

\* the entry carries id both as its requestId field and in its context
Carries(x, id) ==
  /\ x.requestId = id
  /\ x.context # <<>>
  /\ Opt(x.context[1], "requestId") = id

\* C15: when API calls do not overlap, the request id generated at dispatch
\* is the one carried by the call's 'API Request' entry and by its
\* 'API Response' or error entry, and once the response or error
\* interceptor has finished the registry's active request id is null.
C15_RequestIdPerCall ==
  NonOverlapping =>
    /\ \A n \in DOMAIN events :
         \A i \in DOMAIN ApiEntries(events[n]) :
           Carries(ApiEntries(events[n])[i], <<RequestIdPool[events[n].call]>>)
    /\ (events # <<>> /\ events[Len(events)].op \in {"response", "error"}) =>
         requestId = <<>>

\* the registry's request id after the first n interceptor runs
RECURSIVE Active(_)
Active(n) ==
  IF n = 0 THEN <<>>
  ELSE IF events[n].op = "request" THEN <<RequestIdPool[events[n].call]>>
  ELSE IF events[n].threw THEN Active(n - 1)
  ELSE <<>>

\* C16: the registry holds at most one active request id - that of the most
\* recent dispatch, or none once a response or error has been logged since -
\* and a response or error entry carries whatever id is active when its
\* interceptor runs; so when two calls overlap, the first call's response
\* entry can carry the second call's id and the second call's response
\* entry none.
C16_OneActiveRequestId ==
  /\ requestId = Active(Len(events))
  /\ \A n \in DOMAIN events :
       events[n].op \in {"response", "error"} =>
         \A i \in DOMAIN ApiEntries(events[n]) :
           Carries(ApiEntries(events[n])[i], Active(n - 1))

\* two overlapping calls: the first response is tagged r2, the second untagged
C16_Witness ==
  /\ Len(events) = 4
  /\ events[1].op = "request" /\ events[1].call = 1
  /\ events[2].op = "request" /\ events[2].call = 2
  /\ events[3].op = "response" /\ events[3].call = 1
  /\ events[4].op = "response" /\ events[4].call = 2
  /\ ApiEntries(events[3]) # <<>>
  /\ ApiEntries(events[3])[1].message = "API Response"
  /\ ApiEntries(events[3])[1].requestId = <<"r2">>
  /\ ApiEntries(events[4]) # <<>>
  /\ ApiEntries(events[4])[1].message = "API Response"
  /\ ApiEntries(events[4])[1].requestId = <<>>
  /\ Opt(ApiEntries(events[4])[1].context[1], "requestId") = <<>>

\* C17: the interceptors are transparent: for every successful response,
\* whatever its body, the response interceptor returns that response, and
\* for every failure the error interceptor rejects with the error it was
\* given; logging never turns a success into a failure.
C17_InterceptorsTransparent ==
  \A n \in DOMAIN events :
    /\ ~events[n].threw
    /\ events[n].op = "response" => events[n].settled = "response"
    /\ events[n].op = "error" => events[n].settled = "rejected with error"

(***************************************************************************)
(* SpecRegistry: every operation of the registry, on every kind of key     *)
(* setContext accepts (the empty string and the names of the registry's    *)
(* own fields among them), with logging calls in between.                  *)
(***************************************************************************)
AcceptedKeys == {"a", "", "sessionId", "requestId"}

MultipleContexts == {[a |-> "5", b |-> "5"], [sessionId |-> "5"]}

SetMultipleContext(context) ==
  /\ regContext' = Spread(regContext, context)
  /\ last' = NoCall
  /\ regLast' = RegCall("setMultipleContext", <<>>, regContext, requestId, sessionId)
  /\ UNCHANGED <<hostVars, hookVars, orderVars, handleVars, debounceVars, perfVars, apiVars, childVars, storeVars, e2eVars, jsonVars, loggerVars,
                 requestId, sessionId, task>>

InitRegistrySpec ==
  /\ minLevel = "debug"
  /\ enablePerformance = FALSE
  /\ transports = Constructor(TRUE, <<>>, minLevel)
  /\ globalContext \in GlobalContexts
  /\ InitRegistry
  /\ last = NoCall
  /\ task = Idle
  /\ NoJson
  /\ NoScript
  /\ NoStore
  /\ NoChild
  /\ NoApi
  /\ NoRegCalls
  /\ NoPerf
  /\ NoDebounce
  /\ NoHandle
  /\ NoDeliveries
  /\ NoHook
  /\ NoHost

NextRegistry ==
  \/ \E k \in AcceptedKeys : SetContext(k, "2")
  \/ \E context \in MultipleContexts : SetMultipleContext(context)
  \/ \E k \in AcceptedKeys : ClearContext(<<k>>)
  \/ ClearContext(<<>>)
  \/ \E id \in RequestIds : GenerateRequestId(id)
  \/ ClearRequestId
  \/ \E site \in SiteContexts : LogCall("info", site, Undefined)

SpecRegistry == InitRegistrySpec /\ [][NextRegistry]_vars

\* C18: getSessionId() returns the same non-empty value after any sequence
\* of registry operations, and the sessionId field of every dispatched
\* entry equals it, whatever keys are set in the ambient or the call-site
\* context.
C18_SessionIdStable ==
  /\ [](/\ getSessionId # ""
        /\ \A i \in DOMAIN last.eff.entries :
             last.eff.entries[i].sessionId = <<getSessionId>>)
  /\ [][getSessionId' = getSessionId]_vars

\* an entry logged with sessionId set both in the ambient and the call-site context
C18_Witness ==
  /\ last.op = "log"
  /\ "sessionId" \in DOMAIN regContext
  /\ regContext["sessionId"] # getSessionId
  /\ "sessionId" \in DOMAIN last.site
  /\ last.eff.entries # <<>>
  /\ last.eff.entries[1].sessionId = <<getSessionId>>

\* C19: clearContext(key) removes exactly that key from the ambient context
\* and leaves every other key, the request id and the session id as they
\* were, for every key setContext accepts; clearContext() empties the
\* mapping and leaves the request id and the session id as they were.
C19_ClearContextExact ==
  regLast.op = "clearContext" =>
    /\ regContext = IF regLast.key # <<>>
                      THEN Without(regLast.context, regLast.key[1])
                      ELSE EmptyCtx
    /\ requestId = regLast.requestId
    /\ sessionId = regLast.sessionId

\* C27: the requestId field of a dispatched entry equals the registry's
\* active request id at the time of the logging call, and an entry logged
\* while no request id is active carries no requestId field, after any
\* sequence of registry operations, setContext and setMultipleContext with
\* arbitrary keys included.
C27_RequestIdFromRegistry ==
  last.op = "log" =>
    \A i \in DOMAIN last.eff.entries : last.eff.entries[i].requestId = requestId

\* the same while the ambient mapping has no key named requestId
C27_RequestIdFromRegistryUnlessKeySet ==
  (last.op = "log" /\ "requestId" \notin DOMAIN regContext) =>
    \A i \in DOMAIN last.eff.entries : last.eff.entries[i].requestId = requestId

(***************************************************************************)
(* Properties of perf (Spec).                                              *)
(***************************************************************************)
\* C20: perf(message, metrics, context) dispatches one debug-level entry
\* carrying the metrics exactly when enablePerformance is true and debug
\* passes the level filter; with enablePerformance false the call invokes no
\* transport and changes no state.
C20_PerfGated ==
  [][\A site \in SiteContexts, m \in MetricsValues :
       Perf(site, m) =>
         /\ ~last'.threw
         /\ IF enablePerformance /\ Rank("debug") >= Rank(minLevel)
              THEN /\ Len(last'.eff.entries) = 1
                   /\ last'.eff.entries[1].level = "debug"
                   /\ last'.eff.entries[1].performance = <<m>>
                   /\ Len(last'.eff.recv) = 1
                   /\ last'.eff.recv[1].e = last'.eff.entries[1]
              ELSE /\ last'.eff.entries = <<>>
                   /\ last'.eff.recv = <<>>
         /\ ~enablePerformance =>
              UNCHANGED <<hostVars, hookVars, orderVars, handleVars, debounceVars, perfVars, loggerVars, registryVars, jsonVars, storeVars, childVars>>]_vars

\* a perf call that went through, with its metrics on the entry
C20_Witness ==
  /\ last.op = "perf"
  /\ enablePerformance
  /\ minLevel = "debug"
  /\ Len(last.eff.entries) = 1
  /\ last.eff.entries[1].performance = <<Metrics("12.34")>>

(***************************************************************************)
(* SpecPerf: one Performance tracker and the clock.                        *)
(***************************************************************************)
MaxClock == 30
ClockStep == 7

MarkNames == {"m1", "m2"}
MarkArgs == {<<>>} \cup {<<n>> : n \in MarkNames}

nonPerfVars == <<otherVars, storeVars, apiVars, regHistVars, childVars, debounceVars>>

\* time passes
ClockTick ==
  /\ clock + ClockStep <= MaxClock
  /\ clock' = clock + ClockStep
  /\ perfLast' = NoPerfCall
  /\ UNCHANGED <<hostVars, hookVars, orderVars, handleVars, nonPerfVars, startTime, marks>>

PerfStart ==
  /\ startTime' = <<clock>>
  /\ perfLast' = PerfCall("start", <<>>, <<>>, FALSE, 0, startTime, marks)
  /\ UNCHANGED <<hostVars, hookVars, orderVars, handleVars, nonPerfVars, marks, clock>>

PerfEnd ==
  /\ perfLast' = PerfCall("end", <<>>, <<>>, FALSE, endDuration, startTime, marks)
  /\ UNCHANGED <<hostVars, hookVars, orderVars, handleVars, nonPerfVars, startTime, marks, clock>>

PerfMark(name) ==
  /\ marks' = Spread(marks, [k \in {name} |-> clock])
  /\ perfLast' = PerfCall("mark", <<name>>, <<>>, FALSE, 0, startTime, marks)
  /\ UNCHANGED <<hostVars, hookVars, orderVars, handleVars, nonPerfVars, startTime, clock>>

PerfMeasure(startMark, endMark) ==
  /\ perfLast' = PerfCall("measure", startMark, endMark,
                          measure(startMark, endMark).threw,
                          measure(startMark, endMark).result, startTime, marks)
  /\ UNCHANGED <<hostVars, hookVars, orderVars, handleVars, nonPerfVars, startTime, marks, clock>>

PerfReset ==
  /\ startTime' = <<>>
  /\ marks' = NoMarks
  /\ perfLast' = PerfCall("reset", <<>>, <<>>, FALSE, 0, startTime, marks)
  /\ UNCHANGED <<hostVars, hookVars, orderVars, handleVars, nonPerfVars, clock>>

InitPerf ==
  /\ NoLogger
  /\ NoJson
  /\ NoScript
  /\ NoStore
  /\ NoChild
  /\ NoApi
  /\ NoRegCalls
  /\ startTime = <<>>
  /\ marks = NoMarks
  /\ clock \in {0, ClockStep}
  /\ perfLast = NoPerfCall
  /\ NoDebounce
  /\ NoHandle
  /\ NoDeliveries
  /\ NoHook
  /\ NoHost

NextPerf ==
  \/ ClockTick
  \/ PerfStart
  \/ PerfEnd
  \/ \E name \in MarkNames : PerfMark(name)
  \/ \E startMark \in MarkArgs, endMark \in MarkArgs : PerfMeasure(startMark, endMark)
  \/ PerfReset

SpecPerf == InitPerf /\ [][NextPerf]_vars

\* the mark argument names a mark that was never recorded
Unset(mark) == mark # <<>> /\ mark[1] \notin DOMAIN marks

\* C21: end() returns duration 0 without raising when start() was never
\* called or the tracker was reset since; measure() raises when a mark it
\* references, as startMark or as endMark, was never recorded, or when no
\* start mark is given and start() was never called.
C21_EndZeroMeasureRaises ==
  /\ (perfLast.op = "end" /\ startTime = <<>>) =>
       (~perfLast.threw /\ perfLast.result = 0)
  /\ (perfLast.op = "measure"
      /\ (\/ Unset(perfLast.startMark)
          \/ Unset(perfLast.endMark)
          \/ (perfLast.startMark = <<>> /\ startTime = <<>>))) =>
       perfLast.threw

(***************************************************************************)
(* SpecDebounce: a component that calls useDebounce(value, delay) on every *)
(* render.  A render whose value or delay differs from the previous one    *)
(* runs the effect's cleanup and then the effect; a timer that falls due   *)
(* calls setDebouncedValue with the value its effect closed over.  Time is *)
(* counted in ticks; the hook logs on the default logger.                  *)
(***************************************************************************)
MaxNow == 4

DebounceValues == {"A", "B", "C"}
DebounceDelays == {1, 2}

nonDebounceVars == <<otherVars, storeVars, apiVars, regHistVars, childVars, perfVars>>

\* an effect cleanup that leaves the pending timeout running
cleanupKeep(timers) == timers

\* the effect's cleanup: clearTimeout(handler)
cleanup(timers) == <<>>

\* the effect: setTimeout(() => setDebouncedValue(value), delay)
effect(timers, value, delay) == Append(timers, [value |-> value, due |-> now + delay])

\* what one run of the effect, or of a handler, logs
DebounceLog(message) ==
  Log("debug", message, Ctx1("delay", "ms"), Undefined, <<>>, NoEff).eff.entries

\* the timers that fall due at instant t run in the order they were set
RECURSIVE Fire(_, _, _)
Fire(timers, t, value) ==
  IF timers = <<>> THEN value
  ELSE Fire(Tail(timers), t, IF Head(timers).due <= t THEN Head(timers).value ELSE value)

Due(timers, t) == SelectSeq(timers, LAMBDA h : h.due <= t)
Pending(timers, t) == SelectSeq(timers, LAMBDA h : h.due > t)

\* first render: useState(value), then the effect
DebounceMount(value, delay) ==
  /\ ~dbMounted
  /\ dbTimers = <<>>
  /\ now = 0
  /\ dbMounted' = TRUE
  /\ dbValue' = value
  /\ dbDelay' = delay
  /\ debouncedValue' = value
  /\ dbTimers' = effect(<<>>, value, delay)
  /\ dbHeld' = value
  /\ dbChanged' = now
  /\ dbLast' = DebounceLog("Debounce started")
  /\ UNCHANGED <<hostVars, hookVars, orderVars, handleVars, nonDebounceVars, now>>

\* a later render: the effect runs again only when a dependency changed
DebounceRender(value, delay) ==
  /\ dbMounted
  /\ dbValue' = value
  /\ dbDelay' = delay
  /\ IF value # dbValue \/ delay # dbDelay
       THEN /\ dbTimers' = effect(cleanup(dbTimers), value, delay)
            /\ dbHeld' = debouncedValue
            /\ dbChanged' = now
            /\ dbLast' = DebounceLog("Debounce started")
       ELSE /\ dbLast' = <<>>
            /\ UNCHANGED <<hostVars, hookVars, orderVars, handleVars, dbTimers, dbHeld, dbChanged>>
  /\ UNCHANGED <<hostVars, hookVars, orderVars, handleVars, nonDebounceVars, dbMounted, debouncedValue, now>>

\* a tick passes; the handlers that fall due set the state and log
DebounceTick ==
  /\ now < MaxNow
  /\ now' = now + 1
  /\ debouncedValue' = Fire(dbTimers, now + 1, debouncedValue)
  /\ dbTimers' = Pending(dbTimers, now + 1)
  /\ dbLast' = IF Due(dbTimers, now + 1) # <<>>
                 THEN DebounceLog("Debounced value updated") ELSE <<>>
  /\ UNCHANGED <<hostVars, hookVars, orderVars, handleVars, nonDebounceVars, dbMounted, dbValue, dbDelay, dbHeld, dbChanged>>

\* unmount: the cleanup of the last effect
DebounceUnmount ==
  /\ dbMounted
  /\ dbMounted' = FALSE
  /\ dbTimers' = cleanup(dbTimers)
  /\ dbLast' = <<>>
  /\ UNCHANGED <<hostVars, hookVars, orderVars, handleVars, nonDebounceVars, dbValue, dbDelay, debouncedValue, now, dbHeld, dbChanged>>

InitDebounce ==
  /\ minLevel \in {"debug", "warn"}
  /\ enablePerformance = (minLevel = "debug")
  /\ transports = Constructor(TRUE, <<>>, minLevel)
  /\ globalContext = EmptyCtx
  /\ InitRegistry
  /\ last = NoCall
  /\ task = Idle
  /\ NoJson
  /\ NoScript
  /\ NoStore
  /\ NoChild
  /\ NoApi
  /\ NoRegCalls
  /\ NoPerf
  /\ NoDebounce
  /\ NoHandle
  /\ NoDeliveries
  /\ NoHook
  /\ NoHost

NextDebounce ==
  \/ \E value \in DebounceValues, delay \in DebounceDelays : DebounceMount(value, delay)
  \/ \E value \in DebounceValues, delay \in DebounceDelays : DebounceRender(value, delay)
  \/ DebounceTick
  \/ DebounceUnmount

SpecDebounce == InitDebounce /\ [][NextDebounce]_vars

\* C22: useDebounce returns the initial value at once; after a change the
\* returned value stays what it was until delay has passed with no further
\* change and then is the latest value; a value superseded before its
\* delay elapsed is never returned, its timer having been cancelled.
C22_Debounced ==
  dbMounted =>
    /\ debouncedValue = IF now - dbChanged >= dbDelay THEN dbValue ELSE dbHeld
    /\ Len(dbTimers) <= 1
    /\ \A i \in DOMAIN dbTimers :
         dbTimers[i].value = dbValue /\ dbTimers[i].due = dbChanged + dbDelay

\* A, then B superseded by C after one tick, C returned two ticks later
C22_Witness ==
  /\ dbMounted
  /\ now = 3
  /\ dbChanged = 1
  /\ dbDelay = 2
  /\ dbValue = "C"
  /\ dbHeld = "A"
  /\ debouncedValue = "C"
  /\ dbTimers = <<>>

(***************************************************************************)
(* SpecHandle: handleApiError on the default logger, given any value.      *)
(***************************************************************************)
EmptyMessageError == ErrValue("Error", TRUE, "Error", "", "{}", FALSE, "Error")

OptionalTexts == {<<>>, <<"">>, <<"E">>}

ApiErrs ==
  { ApiErr(axios, dataError, dataMessage, value) :
      axios \in BOOLEAN, dataError \in OptionalTexts,
      dataMessage \in {<<>>, <<"">>, <<"M">>},
      value \in ErrValues \cup {EmptyMessageError} }

HandleApiError(error) ==
  /\ handled' = Handled("handleApiError", error, handleApiError(error))
  /\ UNCHANGED <<hostVars, hookVars, orderVars, debounceVars, perfVars, regHistVars, apiVars, childVars, storeVars,
                 otherVars>>

InitHandle ==
  /\ minLevel \in {"debug", "warn"}
  /\ enablePerformance = (minLevel = "debug")
  /\ transports = Constructor(TRUE, <<>>, minLevel)
  /\ globalContext = EmptyCtx
  /\ InitRegistry
  /\ last = NoCall
  /\ task = Idle
  /\ NoJson
  /\ NoScript
  /\ NoStore
  /\ NoChild
  /\ NoApi
  /\ NoRegCalls
  /\ NoPerf
  /\ NoDebounce
  /\ NoHandle
  /\ NoDeliveries
  /\ NoHook
  /\ NoHost

NextHandle == \E error \in ApiErrs : HandleApiError(error)

SpecHandle == InitHandle /\ [][NextHandle]_vars

\* the first of the optional texts that is present and not empty
RECURSIVE FirstNonEmpty(_)
FirstNonEmpty(texts) ==
  IF texts = <<>> THEN <<>>
  ELSE IF Head(texts) # <<>> /\ Head(texts)[1] # "" THEN Head(texts)
  ELSE FirstNonEmpty(Tail(texts))

Expected(error) ==
  IF error.axios
    THEN LET first == FirstNonEmpty(<<error.dataError, error.dataMessage,
                                      <<error.value.message>>>>)
         IN  IF first = <<>> THEN UnexpectedError ELSE first[1]
    ELSE IF error.value.kind = "Error"
      THEN error.value.message
      ELSE UnexpectedError

HandledAsClaimed ==
  /\ ~handled.threw
  /\ handled.result = Expected(handled.error)
  /\ Len(handled.eff.entries) = 1
  /\ handled.eff.entries[1].level = "error"
  /\ Len(handled.eff.recv) = 1

\* C23: handleApiError returns, for an axios error, the first non-empty of
\* response.data.error, response.data.message and the error's message,
\* else 'An unexpected error occurred'; for a non-axios native Error its
\* message; for any other value 'An unexpected error occurred'; every call
\* dispatches exactly one error-level entry and never throws.
C23_HandleApiError ==
  handled.op = "handleApiError" => HandledAsClaimed

\* the same for every value formatError can normalize
C23_HandleApiErrorOfNormalizable ==
  (handled.op = "handleApiError" /\ ~handled.error.value.jsonThrows) => HandledAsClaimed

C23_Witness ==
  /\ handled.op = "handleApiError"
  /\ handled.error.axios
  /\ handled.error.dataError = <<"">>
  /\ handled.error.dataMessage = <<"M">>
  /\ handled.result = "M"
  /\ Len(handled.eff.entries) = 1

(***************************************************************************)
(* SpecOrder: one logger, a sequence of logging calls made one after the   *)
(* other in one task, with transports added in between.  The               *)
(* n-th call logs the message Msg(n).                                      *)
(***************************************************************************)
MaxOrderCalls == 2

OrderPool ==
  { Transport("plain", "none", "debug", "ok"),
    Transport("thrower", "none", "debug", "throws"),
    ConsoleTransport("error") }

OrderCall(level, err) == [level |-> level, err |-> err]

OrderCalls ==
  { OrderCall("info", Undefined), OrderCall("error", NativeError),
    OrderCall("error", CyclicObject) }

Msg(n) == <<"m1", "m2", "m3", "m4", "m5">>[n]

Delivery(n, d) ==
  [n |-> n, i |-> d.i, name |-> transports[d.i].name, message |-> d.e.message]

\* debug / info / warn / error, the n-th call of the task
OrderLog(c) ==
  /\ Len(script) < MaxOrderCalls
  /\ LET n == Len(script) + 1
         r == Log(c.level, Msg(n), EmptyCtx, c.err, <<>>, NoEff)
     IN  /\ last' = Call("log", c.level, EmptyCtx, c.err, NoFn, r)
         /\ deliveries' = deliveries \o [k \in DOMAIN r.eff.recv |-> Delivery(n, r.eff.recv[k])]
  /\ script' = Append(script, c)
  /\ UNCHANGED <<hostVars, hookVars, handleVars, debounceVars, perfVars, regHistVars, apiVars, childVars, storeVars,
                 jsonVars, loggerVars, registryVars, task, writes>>

InitOrder ==
  /\ minLevel \in {"debug", "warn"}
  /\ enablePerformance = FALSE
  /\ \E enableConsole \in BOOLEAN :
       transports = Constructor(enableConsole, <<>>, minLevel)
  /\ globalContext = EmptyCtx
  /\ InitRegistry
  /\ last = NoCall
  /\ task = Idle
  /\ NoJson
  /\ NoScript
  /\ NoStore
  /\ NoChild
  /\ NoApi
  /\ NoRegCalls
  /\ NoPerf
  /\ NoDebounce
  /\ NoHandle
  /\ NoDeliveries
  /\ NoHook
  /\ NoHost

NextOrder ==
  \/ \E t \in OrderPool : AddTransport(t)
  \/ \E c \in OrderCalls : OrderLog(c)

SpecOrder == InitOrder /\ [][NextOrder]_vars

\* the value cannot be turned into an error descriptor
Unserializable(err) == err.truthy /\ err.kind = "object" /\ err.jsonThrows

\* the positions, in registration order, of the transports that take the level
Accepting(level) ==
  LET F[j \in 0..Len(transports)] ==
        IF j = 0 THEN <<>>
        ELSE IF Accepts(transports[j], level) THEN Append(F[j - 1], j) ELSE F[j - 1]
  IN  F[Len(transports)]

\* what the n-th call must hand over: its one entry, once to every
\* accepting transport, in registration order
Due24(n, c) ==
  IF Rank(c.level) >= Rank(minLevel) /\ ~Unserializable(c.err)
    THEN LET at == Accepting(c.level)
         IN  [k \in DOMAIN at |->
                [n |-> n, i |-> at[k], name |-> transports[at[k]].name, message |-> Msg(n)]]
    ELSE <<>>

InCallOrder ==
  \A k \in 1..(Len(deliveries) - 1) :
    \/ deliveries[k].n < deliveries[k + 1].n
    \/ deliveries[k].n = deliveries[k + 1].n /\ deliveries[k].i < deliveries[k + 1].i

\* C24: for one logger and one synchronous sequence of logging calls, each
\* transport receives the entries that pass the filters in the order the
\* calls were made, none reordered, merged or duplicated, and for each
\* entry the transports are invoked in their registration order, a
\* transport added with addTransport after all earlier ones.
C24_CallAndRegistrationOrder ==
  /\ [](InCallOrder /\ \A k \in DOMAIN deliveries : deliveries[k].message = Msg(deliveries[k].n))
  /\ [][\A c \in OrderCalls :
          OrderLog(c) => deliveries' = deliveries \o Due24(Len(script) + 1, c)]_vars
  /\ [][\A t \in OrderPool :
          AddTransport(t) => /\ Len(transports') = Len(transports) + 1
                             /\ transports'[Len(transports')] = t
                             /\ \A i \in DOMAIN transports : transports'[i] = transports[i]]_vars

\* plain was added after the console transport and thrower after plain; the
\* second call reached all three in that order, after the first call's entry
C24_Witness ==
  /\ Len(transports) = 3
  /\ transports[2].name = "plain"
  /\ transports[3].name = "thrower"
  /\ Len(script) = 2
  /\ Len(deliveries) = 4
  /\ deliveries[1].n = 1
  /\ deliveries[2].n = 2
  /\ deliveries[2].i = 1
  /\ deliveries[4].i = 3

(***************************************************************************)
(* SpecJsonTimer: a JsonTransport built in a browser with a flush          *)
(* callback.  setInterval keeps invoking the timer's callback, so the      *)
(* tick is taken again and again.                                          *)
(***************************************************************************)
InitJsonTimer ==
  /\ InitJson
  /\ flushCallback = TRUE
  /\ timer = TRUE

SpecJsonTimer ==
  InitJsonTimer /\ [][NextJson]_vars /\ WF_vars(\E outcome \in CallbackOutcomes : JsonTick(outcome))

Buffered(n) == \E k \in DOMAIN buffer : buffer[k] = n

Passed(n) == \E i \in DOMAIN calls : \E k \in DOMAIN calls[i].batch : calls[i].batch[k] = n

\* C25: for a JsonTransport with a flush callback whose interval timer
\* keeps firing, every entry placed in the buffer is eventually passed to
\* the flush callback even if the buffer never reaches maxBufferSize, and
\* a tick that finds the buffer empty does not invoke the callback.
C25_TimerFlushes ==
  /\ \A n \in 1..MaxLogged : Buffered(n) ~> Passed(n)
  /\ [][\A outcome \in CallbackOutcomes :
          (JsonTick(outcome) /\ buffer = <<>>) => calls' = calls]_vars

\* a tick handed over a buffer that was below maxBufferSize
C25_Witness ==
  /\ jsonLast.op = "tick"
  /\ jsonLast.before = <<1>>
  /\ maxBufferSize = 3
  /\ buffer = <<>>
  /\ Len(calls) = 1
  /\ calls[1].batch = <<1>>

(***************************************************************************)
(* SpecUseLogger: a component that calls useLogger('C', context) on every  *)
(* render, with no context or with a context object whose contents are     *)
(* always {page: 'x'}.  A render passes either the object of the previous  *)
(* render or a new object (an object literal in the component body).       *)
(* React compares the dependencies [componentName, context] with           *)
(* Object.is, so context counts as changed when it is another object.      *)
(***************************************************************************)
MaxRenders == 2

ComponentName == "C"

HookContext == [page |-> "x"]

nonHookVars == <<otherVars, storeVars, apiVars, regHistVars, childVars, debounceVars,
                 handleVars, orderVars>>

\* Math.round(duration), the clock counting thousandths of a millisecond
RoundMs(d) == (d + 500) \div 1000

\* the effect: logger.debug(`Component mounted: ${componentName}`, context)
hookEffect(context) ==
  Log("debug", "Component mounted: C", IF context = <<>> THEN EmptyCtx ELSE HookContext,
      Undefined, <<>>, NoEff).eff.entries

\* its cleanup: logger.debug(`Component unmounted: ...`, {...context, duration})
hookCleanup(context) ==
  Log("debug", "Component unmounted: C",
      Spread(IF context = <<>> THEN EmptyCtx ELSE HookContext,
             Ctx1("duration", RoundMs(clock - mountTimeRef))),
      Undefined, <<>>, NoEff).eff.entries

\* Object.is on each dependency
sameDeps(a, b) == a = b

\* the first render and the first run of the effect
HookMount(given) ==
  /\ hookPhase = "initial"
  /\ hookPhase' = "mounted"
  /\ hookDeps' = <<ComponentName, IF given THEN <<nextRef>> ELSE <<>>>>
  /\ nextRef' = IF given THEN nextRef + 1 ELSE nextRef
  /\ mountTimeRef' = clock
  /\ hookEntries' = hookEntries \o hookEffect(hookDeps'[2])
  /\ UNCHANGED <<hostVars, nonHookVars, perfVars, renders>>

\* a re-render with the same name and the same context contents; fresh says
\* whether the context argument is a new object
HookRender(fresh) ==
  /\ hookPhase = "mounted"
  /\ renders < MaxRenders
  /\ renders' = renders + 1
  /\ LET context == IF hookDeps[2] # <<>> /\ fresh THEN <<nextRef>> ELSE hookDeps[2]
         deps == <<ComponentName, context>>
     IN  /\ nextRef' = IF hookDeps[2] # <<>> /\ fresh THEN nextRef + 1 ELSE nextRef
         /\ IF sameDeps(deps, hookDeps)
              THEN UNCHANGED <<hostVars, hookDeps, mountTimeRef, hookEntries>>
              ELSE /\ hookDeps' = deps
                   /\ mountTimeRef' = clock
                   /\ hookEntries' = hookEntries \o hookCleanup(hookDeps[2])
                                                 \o hookEffect(context)
  /\ UNCHANGED <<hostVars, nonHookVars, perfVars, hookPhase>>

\* unmount: the cleanup of the latest effect
HookUnmount ==
  /\ hookPhase = "mounted"
  /\ hookPhase' = "unmounted"
  /\ hookEntries' = hookEntries \o hookCleanup(hookDeps[2])
  /\ UNCHANGED <<hostVars, nonHookVars, perfVars, hookDeps, mountTimeRef, nextRef, renders>>

InitUseLogger ==
  /\ minLevel \in {"debug", "warn"}
  /\ enablePerformance = (minLevel = "debug")
  /\ transports = Constructor(TRUE, <<>>, minLevel)
  /\ globalContext = EmptyCtx
  /\ InitRegistry
  /\ last = NoCall
  /\ task = Idle
  /\ NoJson
  /\ NoScript
  /\ NoStore
  /\ NoChild
  /\ NoApi
  /\ NoRegCalls
  /\ NoPerf
  /\ NoDebounce
  /\ NoHandle
  /\ NoDeliveries
  /\ NoHook
  /\ NoHost

NextUseLogger ==
  \/ \E given \in BOOLEAN : HookMount(given)
  \/ \E fresh \in BOOLEAN : HookRender(fresh)
  \/ HookUnmount
  \/ ClockTick

SpecUseLogger == InitUseLogger /\ [][NextUseLogger]_vars

Logged(message) ==
  Cardinality({k \in DOMAIN hookEntries : hookEntries[k].message = message})

OnePerLifecycle ==
  /\ hookPhase = "initial" =>
       Logged("Component mounted: C") = 0 /\ Logged("Component unmounted: C") = 0
  /\ hookPhase = "mounted" =>
       Logged("Component mounted: C") = 1 /\ Logged("Component unmounted: C") = 0
  /\ hookPhase = "unmounted" =>
       Logged("Component mounted: C") = 1 /\ Logged("Component unmounted: C") = 1

\* C26: for a component using useLogger(componentName, context), exactly
\* one 'Component mounted' debug entry is logged when it mounts and exactly
\* one 'Component unmounted' debug entry when it unmounts, however often it
\* re-renders in between with the same name and the same context contents
\* (the default logger letting debug entries through).
C26_OnePerLifecycle ==
  minLevel = "debug" => OnePerLifecycle

\* the same as long as every render passed the very same context object
C26_OnePerLifecycleOfSameObject ==
  (minLevel = "debug" /\ nextRef <= 2) => OnePerLifecycle

(***************************************************************************)
(* Properties of the transport lists of parent and child (SpecChild).      *)
(***************************************************************************)
\* how many console transports the list holds
Consoles(ts) == Cardinality({i \in DOMAIN ts : ts[i].name = "console"})

\* how often the last call invoked the log of a console transport
ConsoleWrites ==
  Cardinality({k \in DOMAIN childLast.eff.recv :
                 arrHeap[loggers[childLast.logger].arr][childLast.eff.recv[k].i].name = "console"})

\* C28: after any sequence of child() calls on loggers built with
\* enableConsole true, one qualifying log call on the parent or on any
\* child produces exactly one console write: every such logger holds
\* exactly one console transport, and child() leaves the parent's
\* transport list unchanged.
C28_OneConsoleTransport ==
  /\ [](configEnableConsole =>
          /\ \A l \in DOMAIN loggers : Consoles(arrHeap[loggers[l].arr]) = 1
          /\ (childLast.op = "log" /\ childLast.eff.entries # <<>>) => ConsoleWrites = 1)
  /\ [][\A p \in DOMAIN loggers, context \in ChildContexts :
          (configEnableConsole /\ Child(p, context)) =>
            arrHeap'[loggers[p].arr] = arrHeap[loggers[p].arr]]_vars

\* the same of a root logger from which no child was made
C28_OneConsoleTransportOfRootAlone ==
  (configEnableConsole /\ Len(loggers) = 1) =>
    /\ Consoles(arrHeap[loggers[1].arr]) = 1
    /\ (childLast.op = "log" /\ childLast.eff.entries # <<>>) => ConsoleWrites = 1

(***************************************************************************)
(* Conservation of the entries of a JsonTransport (SpecJson).              *)
(***************************************************************************)
Occurrences(seq, n) == Cardinality({k \in DOMAIN seq : seq[k] = n})

RECURSIVE InBatches(_, _)
InBatches(cs, n) ==
  IF cs = <<>> THEN 0 ELSE Occurrences(Head(cs).batch, n) + InBatches(Tail(cs), n)

\* C29: with a flush callback configured, each entry accepted by log is at
\* every moment either still in the buffer or has been passed to the
\* callback in exactly one batch, never in two and never removed without
\* being passed, also when it was logged while an earlier callback is
\* pending, and whether the flush came from the size, the timer or flush().
C29_BufferedOrInOneBatch ==
  flushCallback =>
    \A n \in 1..(nextEntry - 1) :
      /\ Occurrences(buffer, n) + InBatches(calls, n) = 1
      /\ \A k \in DOMAIN buffer : buffer[k] < nextEntry

\* entry 2 was logged while the callback holding entry 1 was pending, and
\* the timer passed it on in a second batch
C29_Witness ==
  /\ flushCallback
  /\ jsonLast.op = "tick"
  /\ Len(calls) = 2
  /\ calls[1].status = "pending"
  /\ calls[1].batch = <<1>>
  /\ calls[2].batch = <<2>>
  /\ buffer = <<>>

(***************************************************************************)
(* SpecGlobal: the two window listeners of the default logger.  The host   *)
(* queues an error event for every uncaught exception, one thrown by a     *)
(* listener included, and an unhandledrejection event for every promise    *)
(* that rejects with no handler attached, one returned by a transport's    *)
(* log included.                                                           *)
(***************************************************************************)
MaxEvents == 3

HostEvent(type, value, origin) == [type |-> type, value |-> value, origin |-> origin]

EventValues == {NativeError, CyclicObject, Zero}

GlobalPool ==
  { Transport("plain", "none", "debug", "ok"),
    Transport("thrower", "none", "debug", "throws"),
    Transport("rejecter", "none", "debug", "rejects") }

\* the Error a rejecting transport rejects with
Down == ErrValue("Error", TRUE, "Error", "down", "{}", FALSE, "Error: down")

nonHostVars == <<storeVars, apiVars, regHistVars, childVars, debounceVars, perfVars,
                 handleVars, orderVars, hookVars, jsonVars, e2eVars, registryVars, task>>

\* the listener's call of logger.error
listener(event) ==
  IF event.type = "error"
    THEN Log("error", "Unhandled error",
             [message |-> "msg", filename |-> "f.js", lineno |-> "1", colno |-> "1"],
             event.value, <<>>, NoEff)
    ELSE Log("error", "Unhandled promise rejection", Ctx1("promise", "[object Promise]"),
             event.value, <<>>, NoEff)

\* the events that handling one event gives rise to
Further(r) ==
  (IF r.threw THEN <<HostEvent("error", r.thrown, "listener")>> ELSE <<>>)
    \o [k \in DOMAIN r.eff.unhandled |-> HostEvent("unhandledrejection", Down, "transport")]

\* application code throws, or leaves a rejected promise unhandled
Uncaught(type, value) ==
  /\ raised < MaxEvents
  /\ raised' = raised + 1
  /\ hostQueue' = Append(hostQueue, HostEvent(type, value, "application"))
  /\ last' = NoCall
  /\ UNCHANGED <<nonHostVars, loggerVars, dispatched>>

\* the host dispatches the oldest event to its listener; of the events this
\* gives rise to, those beyond MaxEvents are counted but not queued
DispatchEvent ==
  /\ hostQueue # <<>>
  /\ LET event == Head(hostQueue)
         r == listener(event)
         room == MaxEvents - raised
         more == Further(r)
     IN  /\ last' = Call("log", "error", EmptyCtx, event.value, NoFn, r)
         /\ dispatched' = Append(dispatched,
                                 [event |-> event, entries |-> r.eff.entries,
                                  invoked |-> Len(r.eff.recv), further |-> Len(more)])
         /\ hostQueue' = Tail(hostQueue) \o Take(more, room)
         /\ raised' = raised + Len(Take(more, room))
  /\ UNCHANGED <<nonHostVars, loggerVars>>

InitGlobal ==
  /\ minLevel \in {"debug", "warn"}
  /\ enablePerformance = (minLevel = "debug")
  /\ transports = Constructor(TRUE, <<>>, minLevel)
  /\ globalContext = EmptyCtx
  /\ InitRegistry
  /\ last = NoCall
  /\ task = Idle
  /\ NoJson
  /\ NoScript
  /\ NoStore
  /\ NoChild
  /\ NoApi
  /\ NoRegCalls
  /\ NoPerf
  /\ NoDebounce
  /\ NoHandle
  /\ NoDeliveries
  /\ NoHook
  /\ NoHost

\* the transports are registered before the first event
NextGlobal ==
  \/ \E t \in GlobalPool : raised = 0 /\ AddTransport(t)
  \/ \E type \in {"error", "unhandledrejection"}, value \in EventValues : Uncaught(type, value)
  \/ DispatchEvent

SpecGlobal == InitGlobal /\ [][NextGlobal]_vars

HandledOnce(d) ==
  /\ Len(d.entries) = 1
  /\ d.entries[1].level = "error"
  /\ d.further = 0

\* C30: with the global error and unhandledrejection listeners installed,
\* each uncaught error or unhandled rejection results in exactly one
\* error-level entry from the default logger, and handling it raises no
\* further uncaught error or unhandled rejection (no feedback loop), for
\* any registered transport, one whose log fails included.
C30_OneEntryNoFeedback ==
  \A k \in DOMAIN dispatched : HandledOnce(dispatched[k])

\* the same with no transport whose log returns a rejecting promise and
\* for values formatError can normalize
C30_OneEntryNoFeedbackOfSoundParts ==
  \A k \in DOMAIN dispatched :
    ((\A i \in DOMAIN transports : transports[i].sink # "rejects")
     /\ ~Unserializable(dispatched[k].event.value)) => HandledOnce(dispatched[k])

====
